---- MODULE Spec2Model ----
(***************************************************************************)
(* Model of the approval-authority service (modules/approval/services.py) *)
(* and of the list view that renders it (modules/approval/views.py).      *)
(*                                                                         *)
(* The approval_authorities table is the sequence `authorities`; the id   *)
(* of a row is its position (AUTO_INCREMENT, rows are never removed).     *)
(* The employees, approval_types and companies tables are only read by    *)
(* this code, so they are fixed tables.  Dates are day numbers, CURDATE() *)
(* is the variable `today`.  A SQL NULL / Python None is the value NULL.  *)
(* A WHERE clause keeps a row iff the condition evaluates to TRUE; the    *)
(* conditions of this code use no NOT, so each comparison is modelled by  *)
(* the predicate "the comparison is TRUE" (Sql* operators below).         *)
(* Audit columns (notes, created_by, modified_by, *_date) are not read by *)
(* any decision of the code and are left out.                             *)
(***************************************************************************)
EXTENDS Integers, Sequences, FiniteSets, TLC

VARIABLES
    today,        \* CURDATE() / datetime.now().date()
    authorities,  \* table approval_authorities
    errors,       \* list returned by the last validate_authority call
    ret,          \* what the last service call returned: op, (ok, message)
    view,         \* what the last render of the list view queried and displayed
    sess,         \* concurrent sessions: where each add_authority call stands
    users,        \* table users
    batch,        \* the create form's submission and the loop of _process_batch_create
    session_state \* st.session_state of the list view: page and page_size

vars == <<today, authorities, errors, ret, view, sess, users, batch, session_state>>

(***************************************************************************)
(* Bounds of the model                                                     *)
(***************************************************************************)
MaxRecords == 2
MaxDay == 1
FirstDay == 400

(***************************************************************************)
(* Values                                                                  *)
(***************************************************************************)
NULL == -1
NoCode == "None"

Truthy(v) == v # NULL /\ v # 0

SqlEq(a, b) == a # NULL /\ b # NULL /\ a = b
SqlNe(a, b) == a # NULL /\ b # NULL /\ a # b
SqlLt(a, b) == a # NULL /\ b # NULL /\ a < b
SqlLe(a, b) == a # NULL /\ b # NULL /\ a <= b
SqlGe(a, b) == a # NULL /\ b # NULL /\ a >= b
SqlBetween(a, lo, hi) == SqlGe(a, lo) /\ SqlLe(a, hi)

(***************************************************************************)
(* The tables this code only reads                                         *)
(***************************************************************************)
\* further staff, in the collation order of their first names
StaffNames ==
    << "Dung", "Giang", "Hanh", "Khoa", "Lan", "Minh", "Nga", "Oanh", "Phuc", "Quan" >>

\* name_rank: the position of (first_name, last_name) in the collation order
employees ==
    { [id |-> 1, first_name |-> "An",   last_name |-> "Le",   name_rank |-> 1,
       delete_flag |-> 0],
      [id |-> 2, first_name |-> "Binh", last_name |-> "Tran", name_rank |-> 2,
       delete_flag |-> 0],
      [id |-> 3, first_name |-> "Chi",  last_name |-> "Vo",   name_rank |-> 3,
       delete_flag |-> 1] }
    \cup { [id |-> k + 3, first_name |-> StaffNames[k], last_name |-> "Pham",
            name_rank |-> k + 3, delete_flag |-> 0] : k \in DOMAIN StaffNames }

\* name_rank: the position of name in the collation order
approval_types ==
    { [id |-> 1, code |-> "PO_SUGGESTION", name |-> "PO Suggestion", name_rank |-> 3,
       is_active |-> 1, delete_flag |-> 0],
      [id |-> 2, code |-> "LEAVE_REQUEST", name |-> "Leave Request", name_rank |-> 1,
       is_active |-> 1, delete_flag |-> 0],
      [id |-> 3, code |-> "OC_RETURN",     name |-> "OC Return",     name_rank |-> 2,
       is_active |-> 1, delete_flag |-> 1] }

AmountTypeCodes ==
    {"PO_SUGGESTION", "PO_CANCELLATION", "OC_CANCELLATION", "OC_RETURN"}

OneYearDays == 365
FiveYearDays == 1825
MaxAmountLimit == 999999999
ExpiringDays == 30

(***************************************************************************)
(* Messages                                                                *)
(***************************************************************************)
MsgEmployeeRequired == "Employee is required"
MsgTypeRequired     == "Approval type is required"
MsgFromRequired     == "Valid from date is required"
MsgNoEmployee       == "Selected employee does not exist"
MsgNoType           == "Selected approval type does not exist"
MsgFromTooOld       == "Valid from date cannot be more than 1 year in the past"
MsgDateOrder        == "Valid to date must be after valid from date"
MsgDateRange        == "Date range cannot exceed 5 years"
MsgAmountRequired   == "Maximum amount must be specified and greater than 0"
MsgAmountTooLarge   == "Maximum amount is too large"
MsgDuplicate        == "Active authority already exists for this combination"
MsgAdded            == "Authority added successfully"
MsgUpdated          == "Authority updated successfully"
MsgActivated        == "Authority activated successfully"
MsgDeactivated      == "Authority deactivated successfully"
MsgDeleted          == "Authority deleted successfully"
ErrorPrefix         == "Error: "
TypeErrorText       == "int() argument must be a string, a bytes-like object or a real number, not 'NoneType'"

Range(s) == { s[i] : i \in DOMAIN s }

\* sep.join(list): the pieces of the resulting string, in order
RECURSIVE Join(_, _)
Join(sep, list) ==
    IF list = <<>> THEN <<>>
    ELSE IF Len(list) = 1 THEN <<list[1]>>
    ELSE <<list[1], sep>> \o Join(sep, Tail(list))

ErrIf(cond, msg) == IF cond THEN <<msg>> ELSE <<>>

(***************************************************************************)
(* validate_authority                                                      *)
(***************************************************************************)
\* CompanyParam with only an absent company id taken for "all companies"
CompanyParam_KeepsZero(data) ==
    IF data.company_id # NULL THEN data.company_id ELSE NULL

\* int(data['company_id']) if data.get('company_id') else None
CompanyParam(data) ==
    IF Truthy(data.company_id) THEN data.company_id ELSE NULL

\* DuplicateRows with a global record counted against every company
DuplicateRows_GlobalWildcard(data, authority_id) ==
    { i \in DOMAIN authorities :
        /\ SqlEq(authorities[i].employee_id, data.employee_id)
        /\ SqlEq(authorities[i].approval_type_id, data.approval_type_id)
        /\ \/ SqlEq(authorities[i].company_id, CompanyParam(data))
           \/ authorities[i].company_id = NULL
        /\ authorities[i].delete_flag = 0
        /\ authorities[i].is_active = 1
        /\ (authorities[i].valid_to = NULL \/ SqlGe(authorities[i].valid_to, today))
        /\ (Truthy(authority_id) => SqlNe(i, authority_id)) }

\* the rows the duplicate query counts
DuplicateRows(data, authority_id) ==
    { i \in DOMAIN authorities :
        /\ SqlEq(authorities[i].employee_id, data.employee_id)
        /\ SqlEq(authorities[i].approval_type_id, data.approval_type_id)
        /\ \/ SqlEq(authorities[i].company_id, CompanyParam(data))
           \/ (authorities[i].company_id = NULL /\ CompanyParam(data) = NULL)
        /\ authorities[i].delete_flag = 0
        /\ authorities[i].is_active = 1
        /\ (authorities[i].valid_to = NULL \/ SqlGe(authorities[i].valid_to, today))
        /\ (Truthy(authority_id) => SqlNe(i, authority_id)) }

EmployeeCount(id) ==
    Cardinality({ e \in employees : e.id = id /\ e.delete_flag = 0 })

TypeCount(id) ==
    Cardinality({ t \in approval_types : t.id = id /\ t.delete_flag = 0 })

\* lines 151-159
RequiredErrors(data) ==
    ErrIf(~Truthy(data.employee_id), MsgEmployeeRequired)
    \o ErrIf(~Truthy(data.approval_type_id), MsgTypeRequired)
    \o ErrIf(data.valid_from = NULL, MsgFromRequired)

\* lines 161-172
ExistenceErrors(data) ==
    ErrIf(Truthy(data.employee_id) /\ EmployeeCount(data.employee_id) = 0,
          MsgNoEmployee)
    \o ErrIf(Truthy(data.approval_type_id) /\ TypeCount(data.approval_type_id) = 0,
             MsgNoType)

\* DateErrors with the five-year limit one day too generous
DateErrors_SpanOffByOne(data) ==
    ErrIf(data.valid_from # NULL /\ data.valid_from < today - OneYearDays,
          MsgFromTooOld)
    \o ErrIf(data.valid_to # NULL /\ data.valid_from # NULL
                /\ data.valid_to < data.valid_from,
             MsgDateOrder)
    \o ErrIf(data.valid_to # NULL /\ data.valid_from # NULL
                /\ data.valid_to - data.valid_from > FiveYearDays + 1,
             MsgDateRange)

\* lines 174-187
DateErrors(data) ==
    ErrIf(data.valid_from # NULL /\ data.valid_from < today - OneYearDays,
          MsgFromTooOld)
    \o ErrIf(data.valid_to # NULL /\ data.valid_from # NULL
                /\ data.valid_to < data.valid_from,
             MsgDateOrder)
    \o ErrIf(data.valid_to # NULL /\ data.valid_from # NULL
                /\ data.valid_to - data.valid_from > FiveYearDays,
             MsgDateRange)

\* AmountErrors with the limit itself refused
AmountErrors_LimitExclusive(data) ==
    IF data.approval_type_code \in AmountTypeCodes
    THEN IF ~Truthy(data.max_amount) \/ data.max_amount <= 0
         THEN <<MsgAmountRequired>>
         ELSE ErrIf(data.max_amount >= MaxAmountLimit, MsgAmountTooLarge)
    ELSE <<>>

\* lines 189-194
AmountErrors(data) ==
    IF data.approval_type_code \in AmountTypeCodes
    THEN IF ~Truthy(data.max_amount) \/ data.max_amount <= 0
         THEN <<MsgAmountRequired>>
         ELSE ErrIf(data.max_amount > MaxAmountLimit, MsgAmountTooLarge)
    ELSE <<>>

\* lines 196-221
DuplicateErrors(data, authority_id) ==
    ErrIf(Truthy(data.employee_id) /\ Truthy(data.approval_type_id)
             /\ DuplicateRows(data, authority_id) # {},
          MsgDuplicate)

\* validate_authority returning as soon as a required field is missing
validate_authority_StopAtRequired(data, authority_id) ==
    IF RequiredErrors(data) # <<>>
    THEN RequiredErrors(data)
    ELSE ExistenceErrors(data) \o DateErrors(data) \o AmountErrors(data)
         \o DuplicateErrors(data, authority_id)

\* validate_authority with the duplicate query made before the other checks
validate_authority_DuplicateFirst(data, authority_id) ==
    DuplicateErrors(data, authority_id) \o RequiredErrors(data)
    \o ExistenceErrors(data) \o DateErrors(data) \o AmountErrors(data)

validate_authority(data, authority_id) ==
    RequiredErrors(data) \o ExistenceErrors(data) \o DateErrors(data)
    \o AmountErrors(data) \o DuplicateErrors(data, authority_id)

(***************************************************************************)
(* add_authority, update_authority                                         *)
(***************************************************************************)
Sessions == {1, 2}

\* "SELECT code FROM approval_types WHERE id = :id" overwrites the caller's code
WithTypeCode(data) ==
    LET found == { t \in approval_types : t.id = data.approval_type_id }
    IN  IF found = {} THEN data
        ELSE [data EXCEPT !.approval_type_code = (CHOOSE t \in found : TRUE).code]

\* the column values both the INSERT and the UPDATE bind
WriteParams(data) ==
    [ employee_id      |-> data.employee_id,
      approval_type_id |-> data.approval_type_id,
      company_id       |-> CompanyParam(data),
      valid_from       |-> data.valid_from,
      valid_to         |-> data.valid_to,
      max_amount       |-> IF Truthy(data.max_amount) THEN data.max_amount ELSE NULL ]

InsertRow(p) ==
    [ employee_id |-> p.employee_id, approval_type_id |-> p.approval_type_id,
      company_id |-> p.company_id, valid_from |-> p.valid_from,
      valid_to |-> p.valid_to, max_amount |-> p.max_amount,
      is_active |-> 1, delete_flag |-> 0 ]

UpdateRow(row, p) ==
    [ row EXCEPT !.employee_id = p.employee_id,
                 !.approval_type_id = p.approval_type_id,
                 !.company_id = p.company_id,
                 !.valid_from = p.valid_from,
                 !.valid_to = p.valid_to,
                 !.max_amount = p.max_amount ]

Return(op, ok, message) == [op |-> op, ok |-> ok, message |-> message]

StatusActive   == "Active"
StatusInactive == "Inactive"
StatusExpired  == "Expired"
StatusExpiring == "Expiring Soon"
NoStatus       == ""

\* The page on display.  Every service call made from a widget ends the script
\* run (st.rerun), and a new run starts from an empty page: NoView.
NoMetrics == [active |-> 0, inactive |-> 0, expired |-> 0, expiring |-> 0]
NoFilters == [employee_id |-> NULL, approval_type_id |-> NULL, company_id |-> NULL,
              status |-> NoStatus]
\* `pressed` is the pagination button whose press led to the page on display,
\* `pressed_on` the page number that was on display when it was pressed.
NoButton == ""
NoView == [ rendered |-> FALSE, filters |-> NoFilters, page |-> 0, limit |-> 0,
            offset |-> 0, rows |-> <<>>, has_next |-> FALSE, metrics |-> NoMetrics,
            pressed |-> NoButton, pressed_on |-> 0 ]

\* `batch` is the caller's: the loop of _process_batch_create records the
\* result, any other caller leaves it alone
add_authority(data) ==
    /\ view' = NoView
    /\ UNCHANGED <<today, sess, users, session_state>>
    /\ IF data.approval_type_id = NULL
       THEN \* int(None) raises before validation; caught by the except clause
            /\ errors' = <<>>
            /\ ret' = Return("add_authority", FALSE, <<ErrorPrefix, TypeErrorText>>)
            /\ UNCHANGED authorities
       ELSE LET d == WithTypeCode(data)
                errs == validate_authority(d, NULL)
            IN  /\ errors' = errs
                /\ IF errs # <<>>
                   THEN /\ ret' = Return("add_authority", FALSE, Join("; ", errs))
                        /\ UNCHANGED authorities
                   ELSE /\ Len(authorities) < MaxRecords
                        /\ authorities' = Append(authorities, InsertRow(WriteParams(d)))
                        /\ ret' = Return("add_authority", TRUE, <<MsgAdded>>)

update_authority(authority_id, data) ==
    /\ view' = NoView
    /\ UNCHANGED <<today, sess, users, batch, session_state>>
    /\ IF data.approval_type_id = NULL
       THEN /\ errors' = <<>>
            /\ ret' = Return("update_authority", FALSE, <<ErrorPrefix, TypeErrorText>>)
            /\ UNCHANGED authorities
       ELSE LET d == WithTypeCode(data)
                errs == validate_authority(d, authority_id)
            IN  /\ errors' = errs
                /\ IF errs # <<>>
                   THEN /\ ret' = Return("update_authority", FALSE, Join("; ", errs))
                        /\ UNCHANGED authorities
                   ELSE /\ authorities' =
                             [ i \in DOMAIN authorities |->
                                 IF i = authority_id /\ authorities[i].delete_flag = 0
                                 THEN UpdateRow(authorities[i], WriteParams(d))
                                 ELSE authorities[i] ]
                        /\ ret' = Return("update_authority", TRUE, <<MsgUpdated>>)

(***************************************************************************)
(* toggle_authority_status, delete_authority                               *)
(***************************************************************************)
\* toggle_authority_status with "WHERE id = :id" only
toggle_authority_status_AnyRow(authority_id, is_active) ==
    /\ authorities' =
         [ i \in DOMAIN authorities |->
             IF i = authority_id
             THEN [authorities[i] EXCEPT !.is_active = IF is_active THEN 1 ELSE 0]
             ELSE authorities[i] ]
    /\ ret' = Return("toggle_authority_status", TRUE,
                     <<IF is_active THEN MsgActivated ELSE MsgDeactivated>>)
    /\ errors' = <<>>
    /\ view' = NoView
    /\ UNCHANGED <<today, sess, users, batch, session_state>>

toggle_authority_status(authority_id, is_active) ==
    /\ authorities' =
         [ i \in DOMAIN authorities |->
             IF i = authority_id /\ authorities[i].delete_flag = 0
             THEN [authorities[i] EXCEPT !.is_active = IF is_active THEN 1 ELSE 0]
             ELSE authorities[i] ]
    /\ ret' = Return("toggle_authority_status", TRUE,
                     <<IF is_active THEN MsgActivated ELSE MsgDeactivated>>)
    /\ errors' = <<>>
    /\ view' = NoView
    /\ UNCHANGED <<today, sess, users, batch, session_state>>

\* delete_authority as a DELETE FROM: the row is gone and the later rows move up
delete_authority_RemovesRow(authority_id) ==
    /\ authorities' =
         IF authority_id \in DOMAIN authorities
         THEN [ k \in 1 .. (Len(authorities) - 1) |->
                  IF k < authority_id THEN authorities[k] ELSE authorities[k + 1] ]
         ELSE authorities
    /\ ret' = Return("delete_authority", TRUE, <<MsgDeleted>>)
    /\ errors' = <<>>
    /\ view' = NoView
    /\ UNCHANGED <<today, sess, users, batch, session_state>>

delete_authority(authority_id) ==
    /\ authorities' =
         [ i \in DOMAIN authorities |->
             IF i = authority_id
             THEN [authorities[i] EXCEPT !.delete_flag = 1, !.is_active = 0]
             ELSE authorities[i] ]
    /\ ret' = Return("delete_authority", TRUE, <<MsgDeleted>>)
    /\ errors' = <<>>
    /\ view' = NoView
    /\ UNCHANGED <<today, sess, users, batch, session_state>>

(***************************************************************************)
(* get_authorities                                                         *)
(***************************************************************************)
\* StatusColumn with the day of expiry itself counted as expired
StatusColumn_ExpiredOnLastDay(r) ==
    IF r.is_active = 0 THEN StatusInactive
    ELSE IF r.valid_to # NULL /\ SqlLe(r.valid_to, today) THEN StatusExpired
    ELSE IF r.valid_to # NULL /\ SqlLe(r.valid_to, today + ExpiringDays)
         THEN StatusExpiring
    ELSE StatusActive

\* the CASE expression of the SELECT list
StatusColumn(r) ==
    IF r.is_active = 0 THEN StatusInactive
    ELSE IF r.valid_to # NULL /\ SqlLt(r.valid_to, today) THEN StatusExpired
    ELSE IF r.valid_to # NULL /\ SqlLe(r.valid_to, today + ExpiringDays)
         THEN StatusExpiring
    ELSE StatusActive

\* JOIN employees, JOIN approval_types: a row without both partners drops out
Joined(r) ==
    /\ \E e \in employees : SqlEq(r.employee_id, e.id)
    /\ \E t \in approval_types : SqlEq(r.approval_type_id, t.id)

\* StatusFilter with the 30-day window left open at its far end
StatusFilter_OpenWindow(r, status) ==
    IF status = StatusActive
    THEN r.is_active = 1 /\ (r.valid_to = NULL \/ SqlGe(r.valid_to, today))
    ELSE IF status = StatusInactive THEN r.is_active = 0
    ELSE IF status = StatusExpired THEN SqlLt(r.valid_to, today)
    ELSE IF status = StatusExpiring THEN SqlGe(r.valid_to, today)
    ELSE TRUE

\* the condition appended for filters['status']
StatusFilter(r, status) ==
    IF status = StatusActive
    THEN r.is_active = 1 /\ (r.valid_to = NULL \/ SqlGe(r.valid_to, today))
    ELSE IF status = StatusInactive THEN r.is_active = 0
    ELSE IF status = StatusExpired THEN SqlLt(r.valid_to, today)
    ELSE IF status = StatusExpiring
         THEN SqlBetween(r.valid_to, today, today + ExpiringDays)
    ELSE TRUE

\* Matches with the company filter as an exact match
Matches_ExactCompany(r, filters) ==
    /\ r.delete_flag = 0
    /\ Joined(r)
    /\ (Truthy(filters.employee_id) => SqlEq(r.employee_id, filters.employee_id))
    /\ (Truthy(filters.approval_type_id)
            => SqlEq(r.approval_type_id, filters.approval_type_id))
    /\ (Truthy(filters.company_id) => SqlEq(r.company_id, filters.company_id))
    /\ (filters.status # NoStatus => StatusFilter(r, filters.status))

\* the WHERE clause: delete_flag = 0 and one condition per filter key present
Matches(r, filters) ==
    /\ r.delete_flag = 0
    /\ Joined(r)
    /\ (Truthy(filters.employee_id) => SqlEq(r.employee_id, filters.employee_id))
    /\ (Truthy(filters.approval_type_id)
            => SqlEq(r.approval_type_id, filters.approval_type_id))
    /\ (Truthy(filters.company_id)
            => (SqlEq(r.company_id, filters.company_id) \/ r.company_id = NULL))
    /\ (filters.status # NoStatus => StatusFilter(r, filters.status))

MatchingIds(filters) ==
    { i \in DOMAIN authorities : Matches(authorities[i], filters) }

\* ORDER BY e.first_name, e.last_name, at.name
SortKey(i) ==
    << (CHOOSE e \in employees : e.id = authorities[i].employee_id).name_rank,
       (CHOOSE t \in approval_types : t.id = authorities[i].approval_type_id).name_rank >>

KeyLe(k1, k2) == k1[1] < k2[1] \/ (k1[1] = k2[1] /\ k1[2] <= k2[2])

\* every order the database may return the rows in: rows with equal keys come
\* in any order
RECURSIVE Orderings(_)
Orderings(ids) ==
    IF ids = {} THEN { <<>> }
    ELSE UNION { { <<i>> \o s : s \in Orderings(ids \ {i}) } :
                   i \in { j \in ids : \A k \in ids : KeyLe(SortKey(j), SortKey(k)) } }

Min(a, b) == IF a <= b THEN a ELSE b

\* LIMIT :limit OFFSET :offset
Page(s, limit, offset) ==
    [ k \in 1 .. (Min(Len(s), offset + limit) - Min(Len(s), offset)) |-> s[offset + k] ]

RowView(i) ==
    [ id |-> i,
      employee_id |-> authorities[i].employee_id,
      approval_type_id |-> authorities[i].approval_type_id,
      company_id |-> authorities[i].company_id,
      is_active |-> authorities[i].is_active,
      valid_from |-> authorities[i].valid_from,
      valid_to |-> authorities[i].valid_to,
      max_amount |-> authorities[i].max_amount,
      status |-> StatusColumn(authorities[i]) ]

\* the lists get_authorities may return
get_authorities(filters, limit, offset) ==
    { [ k \in DOMAIN Page(s, limit, offset) |-> RowView(Page(s, limit, offset)[k]) ] :
        s \in Orderings(MatchingIds(filters)) }

\* get_authority_by_id: the row with that id that is not deleted, or None
get_authority_by_id(authority_id) ==
    IF /\ authority_id \in DOMAIN authorities
       /\ authorities[authority_id].delete_flag = 0
       /\ Joined(authorities[authority_id])
    THEN authorities[authority_id]
    ELSE NULL

(***************************************************************************)
(* The list view                                                           *)
(***************************************************************************)
PageSize == 20

\* MetricBranch with the status badge's grouping of Expired with Inactive
MetricBranch_ExpiredAsInactive(a) ==
    IF a.status = StatusActive THEN "active"
    ELSE IF a.status \in {StatusInactive, StatusExpired} \/ a.is_active = 0
         THEN "inactive"
    ELSE IF a.status = StatusExpired THEN "expired"
    ELSE IF a.status = StatusExpiring THEN "expiring"
    ELSE "none"

\* the if / elif chain of the loop: the counter row `a` increments
MetricBranch(a) ==
    IF a.status = StatusActive THEN "active"
    ELSE IF a.status = StatusInactive \/ a.is_active = 0 THEN "inactive"
    ELSE IF a.status = StatusExpired THEN "expired"
    ELSE IF a.status = StatusExpiring THEN "expiring"
    ELSE "none"

render_summary_metrics(rows) ==
    [ c \in {"active", "inactive", "expired", "expiring"} |->
        Cardinality({ k \in DOMAIN rows : MetricBranch(rows[k]) = c }) ]

\* what _render_filters leaves in st.session_state.filters for the selection
SessionFilters(sel) ==
    [ employee_id      |-> sel.employee_id,
      approval_type_id |-> sel.approval_type_id,
      company_id       |-> sel.company_id,
      status           |-> IF sel.status = "All" THEN NoStatus ELSE sel.status ]

\* list_page asking for page_size rows only: no row is left to tell that a
\* further page exists
list_page_NoExtraRow(filters, page) ==
    LET limit  == session_state.page_size
        offset == page * session_state.page_size
    IN  { LET has_next == Len(fetched) > session_state.page_size
              shown    == IF has_next THEN SubSeq(fetched, 1, Len(fetched) - 1)
                          ELSE fetched
          IN  [ rendered |-> TRUE, filters |-> filters, page |-> page,
                limit |-> limit, offset |-> offset,
                rows |-> shown, has_next |-> has_next,
                metrics |-> IF shown # <<>> THEN render_summary_metrics(shown)
                            ELSE NoMetrics,
                pressed |-> NoButton, pressed_on |-> 0 ] :
          fetched \in get_authorities(filters, limit, offset) }

\* lines 72-93 with st.session_state.page = page: the query for the page, the
\* extra row dropped, the metrics; one page for every list the query may return
list_page(filters, page) ==
    LET limit  == session_state.page_size + 1
        offset == page * session_state.page_size
    IN  { LET has_next == Len(fetched) > session_state.page_size
              shown    == IF has_next THEN SubSeq(fetched, 1, Len(fetched) - 1)
                          ELSE fetched
          IN  [ rendered |-> TRUE, filters |-> filters, page |-> page,
                limit |-> limit, offset |-> offset,
                rows |-> shown, has_next |-> has_next,
                metrics |-> IF shown # <<>> THEN render_summary_metrics(shown)
                            ELSE NoMetrics,
                pressed |-> NoButton, pressed_on |-> 0 ] :
          fetched \in get_authorities(filters, limit, offset) }

\* one script run of _render_list_view that starts with st.session_state.page =
\* start_page and in which no button is pressed.  _render_filters runs first and
\* ends with st.session_state.page = 0 (line 203), whatever the page was; a page
\* without rows other than the first sends the run back to page 0 (lines 95-98).
script_run(filters, start_page) ==
    LET page == 0
    IN  UNION { IF v.rows = <<>> /\ page > 0 THEN list_page(filters, 0) ELSE {v} :
                v \in list_page(filters, page) }

\* a script run of the list view with the filter widgets showing `sel`
render_list_view(sel) ==
    /\ \E v \in script_run(SessionFilters(sel), session_state.page) :
          /\ view' = v
          /\ session_state' = [session_state EXCEPT !.page = v.page]
    /\ ret' = Return("get_authorities", TRUE, <<>>)
    /\ errors' = <<>>
    /\ UNCHANGED <<today, authorities, sess, users, batch>>

ButtonNext == "Next"

\* the Next button of _render_pagination, lines 114-117.  The press starts a
\* script run with the widgets as they are: _render_filters, the query, and the
\* button, drawn enabled if that run found a further page, returns True;
\* st.session_state.page += 1 and st.rerun() start the next run.
press_next ==
    /\ view.rendered /\ view.rows # <<>> /\ view.has_next
    /\ \E v \in script_run(view.filters, session_state.page) :
          IF v.rows # <<>> /\ v.has_next
          THEN \E w \in script_run(view.filters, v.page + 1) :
                  /\ view' = [w EXCEPT !.pressed = ButtonNext,
                                       !.pressed_on = view.page]
                  /\ session_state' = [session_state EXCEPT !.page = w.page]
          ELSE /\ view' = [v EXCEPT !.pressed = ButtonNext, !.pressed_on = view.page]
               /\ session_state' = [session_state EXCEPT !.page = v.page]
    /\ ret' = Return("get_authorities", TRUE, <<>>)
    /\ errors' = <<>>
    /\ UNCHANGED <<today, authorities, sess, users, batch>>

(***************************************************************************)
(* add_authority in concurrent sessions.  execute_query opens a connection *)
(* per query and commits each write on its own, so the queries of two      *)
(* calls interleave: the SELECTs of a call (type code, validation,         *)
(* duplicate count) are one step, its INSERT a later one.                  *)
(***************************************************************************)
\* lines 227-237: the reads; a call that passes goes on to its INSERT
AddCheck(s, data) ==
    /\ sess[s].pc # "insert"
    /\ IF data.approval_type_id = NULL
       THEN sess' = [sess EXCEPT ![s] =
                [ pc |-> "done", data |-> data, errors |-> <<>>,
                  ret |-> Return("add_authority", FALSE, <<ErrorPrefix, TypeErrorText>>) ]]
       ELSE LET d == WithTypeCode(data)
                errs == validate_authority(d, NULL)
            IN  IF errs # <<>>
                THEN sess' = [sess EXCEPT ![s] =
                        [ pc |-> "done", data |-> d, errors |-> errs,
                          ret |-> Return("add_authority", FALSE, Join("; ", errs)) ]]
                ELSE /\ Len(authorities)
                          + Cardinality({ o \in Sessions : sess[o].pc = "insert" })
                            < MaxRecords
                     /\ sess' = [sess EXCEPT ![s] =
                           [ pc |-> "insert", data |-> d, errors |-> errs,
                             ret |-> Return("add_authority", FALSE, <<>>) ]]
    /\ UNCHANGED <<today, authorities, errors, ret, view, users, batch, session_state>>

\* AddInsert behind a uniqueness constraint: the INSERT fails when a current
\* record of the tuple has appeared since the check
AddInsert_Constrained(s) ==
    /\ sess[s].pc = "insert"
    /\ IF DuplicateRows(sess[s].data, NULL) # {}
       THEN /\ sess' = [sess EXCEPT ![s].pc = "done",
                                    ![s].ret = Return("add_authority", FALSE,
                                                      <<ErrorPrefix, "Duplicate entry">>)]
            /\ UNCHANGED authorities
       ELSE /\ authorities' = Append(authorities, InsertRow(WriteParams(sess[s].data)))
            /\ sess' = [sess EXCEPT ![s].pc = "done",
                                    ![s].ret = Return("add_authority", TRUE, <<MsgAdded>>)]
    /\ UNCHANGED <<today, errors, ret, view, users, batch, session_state>>

\* lines 239-259: the INSERT and the return
AddInsert(s) ==
    /\ sess[s].pc = "insert"
    /\ authorities' = Append(authorities, InsertRow(WriteParams(sess[s].data)))
    /\ sess' = [sess EXCEPT ![s].pc = "done",
                            ![s].ret = Return("add_authority", TRUE, <<MsgAdded>>)]
    /\ UNCHANGED <<today, errors, ret, view, users, batch, session_state>>

\* midnight passes: CURDATE() moves on
NextDay ==
    /\ today < FirstDay + MaxDay
    /\ today' = today + 1
    /\ view' = NoView
    /\ UNCHANGED <<authorities, errors, ret, sess, users, batch, session_state>>

(***************************************************************************)
(* The create form and _process_batch_create.  Every add_authority call of *)
(* the loop commits on its own, so one pass of the loop body is one step;  *)
(* `batch` holds the submission, the loop indices i and j, the counters    *)
(* and, in `attempts`, the add_authority calls made so far.                *)
(***************************************************************************)
MsgSelectType == "Please select at least one approval type"
NoMessage     == ""

NoBatch ==
    [ pc |-> "idle", selected_company_ids |-> <<>>, type_ids |-> <<>>,
      company_ids |-> <<>>, employee_id |-> NULL, valid_from |-> NULL,
      valid_to |-> NULL, max_amount |-> NULL, i |-> 0, j |-> 0,
      success_count |-> 0, errors |-> <<>>, attempts |-> <<>>,
      message |-> NoMessage, closed |-> FALSE ]

\* get_approval_types: the rows with is_active = 1 and delete_flag = 0
types_dict(type_id) ==
    { t \in approval_types : t.id = type_id /\ t.is_active = 1 /\ t.delete_flag = 0 }

\* type_info.get('code') and type_info.get('name', 'Unknown')
TypeInfoCode(type_id) ==
    IF types_dict(type_id) = {} THEN NoCode
    ELSE (CHOOSE t \in types_dict(type_id) : TRUE).code

TypeInfoName(type_id) ==
    IF types_dict(type_id) = {} THEN "Unknown"
    ELSE (CHOOSE t \in types_dict(type_id) : TRUE).name

\* lines 432-438: nothing selected, or "All Companies" (0) among the selection
selected_companies(selected_company_ids) ==
    IF selected_company_ids = <<>> \/ 0 \in Range(selected_company_ids)
    THEN <<NULL>>
    ELSE selected_company_ids

\* lines 453-475: the amount input is shown only if a selected type needs one
requires_amount(selected_types) ==
    \E k \in DOMAIN selected_types : TypeInfoCode(selected_types[k]) \in AmountTypeCodes

\* the Create button of the form: lines 511-539, then lines 607-621
submit_create(employee_id, selected_types, selected_company_ids, valid_from, valid_to, amount_input) ==
    /\ batch.pc # "running"
    /\ IF selected_types = <<>>
       THEN batch' = [ NoBatch EXCEPT !.pc = "done",
                                      !.selected_company_ids = selected_company_ids,
                                      !.message = MsgSelectType ]
       ELSE batch' = [ NoBatch EXCEPT
                         !.pc = "running",
                         !.selected_company_ids = selected_company_ids,
                         !.type_ids = selected_types,
                         !.company_ids = selected_companies(selected_company_ids),
                         !.employee_id = employee_id,
                         !.valid_from = valid_from,
                         !.valid_to = valid_to,
                         !.max_amount = IF requires_amount(selected_types)
                                        THEN amount_input ELSE NULL ]
    /\ view' = NoView
    /\ UNCHANGED <<today, authorities, errors, ret, sess, users, session_state>>

CompanyName(company_id) ==
    IF company_id = NULL THEN "All Companies" ELSE "Company " \o ToString(company_id)

\* lines 634-643
BatchData(b) ==
    LET type_id    == b.type_ids[b.i + 1]
        company_id == b.company_ids[b.j + 1]
    IN  [ employee_id        |-> b.employee_id,
          approval_type_id   |-> type_id,
          approval_type_code |-> TypeInfoCode(type_id),
          company_id         |-> company_id,
          valid_from         |-> b.valid_from,
          valid_to           |-> b.valid_to,
          max_amount         |-> IF TypeInfoCode(type_id) \in AmountTypeCodes
                                 THEN b.max_amount ELSE NULL ]

\* AfterAttempt with the loop given up at the first rejection
AfterAttempt_AbortOnFailure(b, success, message) ==
    LET type_id    == b.type_ids[b.i + 1]
        company_id == b.company_ids[b.j + 1]
        last       == b.j + 1 = Len(b.company_ids) /\ b.i + 1 = Len(b.type_ids)
        count      == IF success THEN b.success_count + 1 ELSE b.success_count
    IN  [ b EXCEPT
            !.attempts = Append(@, [ type_id |-> type_id, company_id |-> company_id,
                                     success |-> success, message |-> message ]),
            !.success_count = count,
            !.errors = IF success THEN @
                       ELSE Append(@, <<TypeInfoName(type_id), " - ",
                                        CompanyName(company_id), ": ">> \o message),
            !.j = IF b.j + 1 = Len(b.company_ids) THEN 0 ELSE b.j + 1,
            !.i = IF b.j + 1 = Len(b.company_ids) THEN b.i + 1 ELSE b.i,
            !.pc = IF last \/ ~success THEN "done" ELSE "running",
            !.closed = (last \/ ~success) /\ count > 0 ]

\* lines 645-666: the result of one add_authority call is counted or listed, the
\* loop moves on; after the last pair the results are shown and, if anything
\* was created, the form is closed
AfterAttempt(b, success, message) ==
    LET type_id    == b.type_ids[b.i + 1]
        company_id == b.company_ids[b.j + 1]
        last       == b.j + 1 = Len(b.company_ids) /\ b.i + 1 = Len(b.type_ids)
        count      == IF success THEN b.success_count + 1 ELSE b.success_count
    IN  [ b EXCEPT
            !.attempts = Append(@, [ type_id |-> type_id, company_id |-> company_id,
                                     success |-> success, message |-> message ]),
            !.success_count = count,
            !.errors = IF success THEN @
                       ELSE Append(@, <<TypeInfoName(type_id), " - ",
                                        CompanyName(company_id), ": ">> \o message),
            !.j = IF b.j + 1 = Len(b.company_ids) THEN 0 ELSE b.j + 1,
            !.i = IF b.j + 1 = Len(b.company_ids) THEN b.i + 1 ELSE b.i,
            !.pc = IF last THEN "done" ELSE "running",
            !.closed = last /\ count > 0 ]

\* process_batch_create as one transaction: a refused pair takes back the
\* records the batch has created so far
process_batch_create_AllOrNothing ==
    /\ batch.pc = "running"
    /\ LET d == WithTypeCode(BatchData(batch))
           errs == validate_authority(d, NULL)
       IN  /\ errors' = errs
           /\ IF errs # <<>>
              THEN /\ ret' = Return("add_authority", FALSE, Join("; ", errs))
                   /\ authorities' = SubSeq(authorities, 1,
                                            Len(authorities) - batch.success_count)
              ELSE /\ Len(authorities) < MaxRecords
                   /\ authorities' = Append(authorities, InsertRow(WriteParams(d)))
                   /\ ret' = Return("add_authority", TRUE, <<MsgAdded>>)
    /\ batch' = AfterAttempt(batch, ret'.ok, ret'.message)
    /\ view' = NoView
    /\ UNCHANGED <<today, sess, users, session_state>>

\* one pass of the loop body of _process_batch_create, lines 624-650
process_batch_create ==
    /\ batch.pc = "running"
    /\ add_authority(BatchData(batch))
    /\ batch' = AfterAttempt(batch, ret'.ok, ret'.message)

(***************************************************************************)
(* User accounts: AuthService.create_user and UserService.  The id of a    *)
(* row of `users` is its position.  Email, employee link and password hash *)
(* are written but read by no decision of this code and are left out.      *)
(***************************************************************************)
MaxUsers == 2

MsgUsernameExists  == "Username already exists"
MsgUserCreated     == "User created successfully"
MsgUserUpdated     == "User updated successfully"
MsgLastAdminToggle == "Cannot deactivate the last admin user"
MsgUserActivated   == "User activated successfully"
MsgUserDeactivated == "User deactivated successfully"
MsgLastAdminDelete == "Cannot delete the last admin user"
MsgUserDeleted     == "User deleted successfully"

\* the account the deployment starts with
SeedUsers ==
    << [username |-> "admin", role |-> "admin", is_active |-> 1, delete_flag |-> 0] >>

\* create_user with the username check counting deleted accounts too
create_user_CountsDeleted(username, role) ==
    /\ IF { i \in DOMAIN users : users[i].username = username } # {}
       THEN /\ ret' = Return("create_user", FALSE, <<MsgUsernameExists>>)
            /\ UNCHANGED users
       ELSE /\ Len(users) < MaxUsers
            /\ users' = Append(users, [ username |-> username, role |-> role,
                                        is_active |-> 1, delete_flag |-> 0 ])
            /\ ret' = Return("create_user", TRUE, <<MsgUserCreated>>)
    /\ UNCHANGED <<today, authorities, errors, view, sess, batch, session_state>>

\* auth_service.py lines 98-107
create_user(username, role) ==
    /\ IF { i \in DOMAIN users :
              users[i].username = username /\ users[i].delete_flag = 0 } # {}
       THEN /\ ret' = Return("create_user", FALSE, <<MsgUsernameExists>>)
            /\ UNCHANGED users
       ELSE /\ Len(users) < MaxUsers
            /\ users' = Append(users, [ username |-> username, role |-> role,
                                        is_active |-> 1, delete_flag |-> 0 ])
            /\ ret' = Return("create_user", TRUE, <<MsgUserCreated>>)
    /\ UNCHANGED <<today, authorities, errors, view, sess, batch, session_state>>

\* the form always sends a username; the UPDATE does not write it
update_user(user_id, data) ==
    /\ IF { i \in DOMAIN users :
              /\ users[i].username = data.username
              /\ i # user_id
              /\ users[i].delete_flag = 0 } # {}
       THEN /\ ret' = Return("update_user", FALSE, <<MsgUsernameExists>>)
            /\ UNCHANGED users
       ELSE /\ users' = [ i \in DOMAIN users |->
                            IF i = user_id
                            THEN [ users[i] EXCEPT
                                     !.role = data.role,
                                     !.is_active = IF data.is_active THEN 1 ELSE 0 ]
                            ELSE users[i] ]
            /\ ret' = Return("update_user", TRUE, <<MsgUserUpdated>>)
    /\ UNCHANGED <<today, authorities, errors, view, sess, batch, session_state>>

\* OtherActiveAdmins without the "id != :id" condition
OtherActiveAdmins_CountsSelf(user_id) ==
    { i \in DOMAIN users :
        users[i].role = "admin" /\ users[i].is_active = 1 /\ users[i].delete_flag = 0 }

\* the rows the check query of toggle_user_status counts
OtherActiveAdmins(user_id) ==
    { i \in DOMAIN users :
        /\ users[i].role = "admin"
        /\ users[i].is_active = 1
        /\ users[i].delete_flag = 0
        /\ i # user_id }

toggle_user_status(user_id, is_active) ==
    /\ IF ~is_active /\ Cardinality(OtherActiveAdmins(user_id)) = 0
       THEN /\ ret' = Return("toggle_user_status", FALSE, <<MsgLastAdminToggle>>)
            /\ UNCHANGED users
       ELSE /\ users' = [ i \in DOMAIN users |->
                            IF i = user_id
                            THEN [ users[i] EXCEPT
                                     !.is_active = IF is_active THEN 1 ELSE 0 ]
                            ELSE users[i] ]
            /\ ret' = Return("toggle_user_status", TRUE,
                             << IF is_active THEN MsgUserActivated
                                ELSE MsgUserDeactivated >>)
    /\ UNCHANGED <<today, authorities, errors, view, sess, batch, session_state>>

\* toggle_user_status in concurrent sessions: the guard SELECT of a call is one
\* step, its UPDATE a later one (execute_query opens a connection per query
\* and commits each write on its own).
\* lines 151-162: the guard, made only for a deactivation
ToggleCheck(s, user_id, is_active) ==
    /\ sess[s].pc # "update"
    /\ IF ~is_active /\ Cardinality(OtherActiveAdmins(user_id)) = 0
       THEN sess' = [sess EXCEPT ![s] =
                [ pc |-> "done", data |-> [user_id |-> user_id, is_active |-> is_active],
                  errors |-> <<>>,
                  ret |-> Return("toggle_user_status", FALSE, <<MsgLastAdminToggle>>) ]]
       ELSE sess' = [sess EXCEPT ![s] =
                [ pc |-> "update", data |-> [user_id |-> user_id, is_active |-> is_active],
                  errors |-> <<>>,
                  ret |-> Return("toggle_user_status", FALSE, <<>>) ]]
    /\ UNCHANGED <<today, authorities, errors, ret, view, users, batch, session_state>>

\* lines 164-178: the UPDATE and the return
ToggleUpdate(s) ==
    /\ sess[s].pc = "update"
    /\ users' = [ i \in DOMAIN users |->
                    IF i = sess[s].data.user_id
                    THEN [ users[i] EXCEPT
                             !.is_active = IF sess[s].data.is_active THEN 1 ELSE 0 ]
                    ELSE users[i] ]
    /\ sess' = [sess EXCEPT
                  ![s].pc = "done",
                  ![s].ret = Return("toggle_user_status", TRUE,
                                    << IF sess[s].data.is_active THEN MsgUserActivated
                                       ELSE MsgUserDeactivated >>)]
    /\ UNCHANGED <<today, authorities, errors, ret, view, batch, session_state>>

\* the subquery of delete_user: admins that are not deleted, active or not
admin_count ==
    Cardinality({ i \in DOMAIN users :
                    users[i].role = "admin" /\ users[i].delete_flag = 0 })

delete_user(user_id) ==
    /\ IF user_id \in DOMAIN users /\ users[user_id].role = "admin" /\ admin_count <= 1
       THEN /\ ret' = Return("delete_user", FALSE, <<MsgLastAdminDelete>>)
            /\ UNCHANGED users
       ELSE /\ users' = [ i \in DOMAIN users |->
                            IF i = user_id
                            THEN [ users[i] EXCEPT !.delete_flag = 1, !.is_active = 0 ]
                            ELSE users[i] ]
            /\ ret' = Return("delete_user", TRUE, <<MsgUserDeleted>>)
    /\ UNCHANGED <<today, authorities, errors, view, sess, batch, session_state>>

(***************************************************************************)
(* A query that raises.  execute_query re-raises whatever the connection   *)
(* raises; every mutating operation runs its queries inside one            *)
(* try / except Exception.  QueriesOf lists the queries a call issues when *)
(* none of them fails; in each operation the only write is the last one.   *)
(***************************************************************************)
\* str(e) of the driver's exception: its text, then the statement that failed
StorageErrorText == "(2013, 'Lost connection to MySQL server during query')"
StorageError(query) == <<StorageErrorText, query>>

\* Caught handing on the bare text of the exception
Caught_Unprefixed(op, e) == Return(op, FALSE, e)

\* except Exception as e: return False, f"Error: {str(e)}"
Caught(op, e) == Return(op, FALSE, <<ErrorPrefix>> \o e)

AuthorityQueries(data, authority_id, write) ==
    IF data.approval_type_id = NULL
    THEN <<>>     \* int(None) raises before the first query
    ELSE <<"SELECT code FROM approval_types">>
         \o (IF Truthy(data.employee_id)
             THEN <<"SELECT COUNT(*) FROM employees">> ELSE <<>>)
         \o (IF Truthy(data.approval_type_id)
             THEN <<"SELECT COUNT(*) FROM approval_types">> ELSE <<>>)
         \o (IF Truthy(data.employee_id) /\ Truthy(data.approval_type_id)
             THEN <<"SELECT COUNT(*) FROM approval_authorities">> ELSE <<>>)
         \o (IF validate_authority(WithTypeCode(data), authority_id) = <<>>
             THEN <<write>> ELSE <<>>)

QueriesOf(call) ==
    CASE call.op = "add_authority" ->
            AuthorityQueries(call.data, NULL, "INSERT INTO approval_authorities")
      [] call.op = "update_authority" ->
            AuthorityQueries(call.data, call.id, "UPDATE approval_authorities")
      [] call.op \in {"toggle_authority_status", "delete_authority"} ->
            <<"UPDATE approval_authorities">>
      [] call.op = "create_user" ->
            <<"SELECT COUNT(*) FROM users">>
            \o (IF { i \in DOMAIN users : users[i].username = call.username
                                            /\ users[i].delete_flag = 0 } = {}
                THEN <<"INSERT INTO users">> ELSE <<>>)
      [] call.op = "update_user" ->
            <<"SELECT COUNT(*) FROM users">>
            \o (IF { i \in DOMAIN users : users[i].username = call.data.username
                                            /\ i # call.id
                                            /\ users[i].delete_flag = 0 } = {}
                THEN <<"UPDATE users">> ELSE <<>>)
      [] call.op = "toggle_user_status" ->
            (IF ~call.is_active THEN <<"SELECT COUNT(*) FROM users">> ELSE <<>>)
            \o (IF call.is_active \/ OtherActiveAdmins(call.id) # {}
                THEN <<"UPDATE users">> ELSE <<>>)
      [] call.op = "delete_user" ->
            <<"SELECT role, admin_count FROM users">>
            \o (IF call.id \in DOMAIN users /\ users[call.id].role = "admin"
                     /\ admin_count <= 1
                THEN <<>> ELSE <<"UPDATE users">>)

WriteStatements ==
    { "INSERT INTO approval_authorities", "UPDATE approval_authorities",
      "INSERT INTO users", "UPDATE users" }

\* what query number q of the call raising leaves behind: a statement that
\* raised has written nothing (the connection is closed without a commit),
\* and the except clause returns
storage_outcome(call, q) ==
    [ ret         |-> Caught(call.op, StorageError(QueriesOf(call)[q])),
      authorities |-> authorities,
      users       |-> users ]

\* one pass of the loop body in which query number q of add_authority raises:
\* add_authority returns (False, "Error: ...") and the loop goes on
process_batch_create_raises(q) ==
    LET call == [op |-> "add_authority", data |-> BatchData(batch)]
    IN  /\ batch.pc = "running"
        /\ q \in DOMAIN QueriesOf(call)
        /\ ret' = storage_outcome(call, q).ret
        /\ authorities' = storage_outcome(call, q).authorities
        /\ errors' = <<>>
        /\ view' = NoView
        /\ batch' = AfterAttempt(batch, ret'.ok, ret'.message)
        /\ UNCHANGED <<today, sess, users, session_state>>

storage_raises(call, q) ==
    /\ q \in DOMAIN QueriesOf(call)
    /\ ret' = storage_outcome(call, q).ret
    /\ authorities' = storage_outcome(call, q).authorities
    /\ users' = storage_outcome(call, q).users
    /\ errors' = IF call.op \in {"add_authority", "update_authority"}
                 THEN <<>> ELSE errors
    /\ view' = IF call.op \in {"add_authority", "update_authority",
                               "toggle_authority_status", "delete_authority"}
               THEN NoView ELSE view
    /\ UNCHANGED <<today, sess, batch, session_state>>

(***************************************************************************)
(* Inputs                                                                  *)
(***************************************************************************)
AuthorityIds == 1 .. MaxRecords

Candidate(e, t, c, vf, vt, amt) ==
    [ employee_id |-> e, approval_type_id |-> t, approval_type_code |-> NoCode,
      company_id |-> c, valid_from |-> vf, valid_to |-> vt, max_amount |-> amt ]

\* well-formed submissions: one base tuple, with and without an expiry on the
\* first day, and the tuples that differ from it in one coordinate
TupleCandidates ==
    { Candidate(1, 1, NULL, FirstDay - 2, vt, 100) : vt \in {NULL, FirstDay} }
    \cup { Candidate(1, 1, c, FirstDay - 2, NULL, 100) : c \in {0, 1, 2} }
    \cup { Candidate(2, 1, NULL, FirstDay - 2, NULL, 100),
           Candidate(1, 2, NULL, FirstDay - 2, NULL, 100) }

\* submissions with every mix of a missing, unknown or sound employee and
\* approval type, a missing or sound start date, an end date before the start
\* or none, and an unusable or sound amount; exactly one of them is acceptable
ValidateCandidates ==
    { Candidate(e, t, NULL, vf, vt, amt) :
        e \in {NULL, 1, 3}, t \in {NULL, 0, 1, 3},
        vf \in {NULL, FirstDay - 2}, vt \in {NULL, FirstDay - 3}, amt \in {0, 100} }

\* two sessions submit the same form, or forms that differ in the company
RaceCandidates ==
    { Candidate(1, 1, c, FirstDay - 2, NULL, 100) : c \in {NULL, 1} }

Idle == [ pc |-> "idle", data |-> Candidate(NULL, NULL, NULL, NULL, NULL, NULL),
          errors |-> <<>>, ret |-> Return("none", TRUE, <<>>) ]
\* submissions that differ in the expiry: none, yesterday, today, in 10, 30, 31
\* and 40 days; and one for a second employee
ListCandidates ==
    { Candidate(1, 1, NULL, FirstDay - 2, vt, 100) :
        vt \in {NULL, FirstDay - 1, FirstDay, FirstDay + 10, FirstDay + 30,
                FirstDay + 31, FirstDay + 40} }
    \cup { Candidate(2, 1, NULL, FirstDay - 2, FirstDay + 40, 100) }

\* the status selectbox, the other three filters left on "All"
StatusSelections ==
    { [employee_id |-> NULL, approval_type_id |-> NULL, company_id |-> NULL,
       status |-> st] :
        st \in {"All", StatusActive, StatusInactive, StatusExpired, StatusExpiring} }

Init ==
    /\ today = FirstDay
    /\ authorities = <<>>
    /\ errors = <<>>
    /\ ret = Return("none", TRUE, <<>>)
    /\ view = NoView
    /\ sess = [s \in Sessions |-> Idle]
    /\ users = SeedUsers
    /\ batch = NoBatch
    /\ session_state = [page |-> 0, page_size |-> PageSize]

Next ==
    \/ \E data \in TupleCandidates : add_authority(data) /\ UNCHANGED batch
    \/ \E id \in AuthorityIds, data \in TupleCandidates : update_authority(id, data)
    \/ \E id \in AuthorityIds, a \in BOOLEAN : toggle_authority_status(id, a)
    \/ \E id \in AuthorityIds : delete_authority(id)
    \/ NextDay

Spec == Init /\ [][Next]_vars

NextValidate ==
    \/ \E data \in ValidateCandidates : add_authority(data) /\ UNCHANGED batch
    \/ \E id \in AuthorityIds, data \in ValidateCandidates : update_authority(id, data)
    \/ \E id \in AuthorityIds, a \in BOOLEAN : toggle_authority_status(id, a)
    \/ \E id \in AuthorityIds : delete_authority(id)

SpecValidate == Init /\ [][NextValidate]_vars

NextList ==
    \/ \E data \in ListCandidates : add_authority(data) /\ UNCHANGED batch
    \/ \E id \in AuthorityIds, a \in BOOLEAN : toggle_authority_status(id, a)
    \/ \E id \in AuthorityIds : delete_authority(id)
    \/ \E sel \in StatusSelections : render_list_view(sel)

SpecList == Init /\ [][NextList]_vars

NextConc ==
    \/ \E s \in Sessions, data \in RaceCandidates : AddCheck(s, data)
    \/ \E s \in Sessions : AddInsert(s)
    \/ \E id \in AuthorityIds : delete_authority(id)

SpecConc == Init /\ [][NextConc]_vars

\* submissions on the boundaries of the amount and date rules: no amount, 0, 1,
\* the limit and the limit plus one; a start 366 days back; a start 365 days
\* back with an end one day before it, on it, 1825 and 1826 days after it
AmountCandidates ==
    { Candidate(1, 1, NULL, FirstDay - 2, NULL, amt) :
        amt \in {NULL, 0, 1, MaxAmountLimit, MaxAmountLimit + 1} }

DateCandidates ==
    { Candidate(1, 1, NULL, FirstDay - OneYearDays - 1, NULL, 100) }
    \cup { Candidate(1, 1, NULL, FirstDay - OneYearDays, vt, 100) :
             vt \in {FirstDay - OneYearDays - 1, FirstDay - OneYearDays,
                     FirstDay - OneYearDays + FiveYearDays,
                     FirstDay - OneYearDays + FiveYearDays + 1} }

WriteCandidates == AmountCandidates \cup DateCandidates

NextWrite ==
    \/ \E data \in WriteCandidates : add_authority(data) /\ UNCHANGED batch
    \/ \E id \in AuthorityIds, data \in DateCandidates : update_authority(id, data)
    \/ \E id \in AuthorityIds, a \in BOOLEAN : toggle_authority_status(id, a)
    \/ \E id \in AuthorityIds : delete_authority(id)

SpecWrite == Init /\ [][NextWrite]_vars

\* what the two multiselects of the create form can hold: the active approval
\* types and the options 0 ("All Companies"), 1 and 2, in the order picked
TypeSelections == { <<>>, <<1>>, <<1, 2>>, <<2, 1>> }
CompanySelections == { <<>>, <<1, 2>>, <<2, 1>>, <<0, 1, 2>> }

NextBatch ==
    \/ \E types \in TypeSelections, companies \in CompanySelections,
          amount \in {0, 100} :
          submit_create(1, types, companies, FirstDay, NULL, amount)
    \/ process_batch_create
    \/ \E id \in AuthorityIds : batch.pc # "running" /\ delete_authority(id)

SpecBatch == Init /\ [][NextBatch]_vars

Usernames == {"admin", "binh"}
Roles == {"admin", "manager", "user"}
UserIds == 1 .. MaxUsers
UserData == [username : Usernames, role : Roles, is_active : BOOLEAN]

NextUsers ==
    \/ \E username \in Usernames, role \in Roles : create_user(username, role)
    \/ \E id \in UserIds, data \in UserData : update_user(id, data)
    \/ \E id \in UserIds, a \in BOOLEAN : toggle_user_status(id, a)
    \/ \E id \in UserIds : delete_user(id)

SpecUsers == Init /\ [][NextUsers]_vars

\* SpecStorage makes each of the eight mutating operations with few inputs and
\* keeps both tables short
StorageRecords == 1
StorageCandidates == { Candidate(1, 1, NULL, FirstDay - 2, NULL, 100) }
StorageData == [username : {"binh"}, role : {"user"}, is_active : {TRUE}]

StorageCalls ==
    { [op |-> "add_authority", data |-> d] : d \in StorageCandidates }
    \cup { [op |-> "update_authority", id |-> id, data |-> d] :
             id \in AuthorityIds, d \in StorageCandidates }
    \cup { [op |-> "toggle_authority_status", id |-> id, is_active |-> a] :
             id \in AuthorityIds, a \in BOOLEAN }
    \cup { [op |-> "delete_authority", id |-> id] : id \in AuthorityIds }
    \cup { [op |-> "create_user", username |-> "binh", role |-> "user"] }
    \cup { [op |-> "update_user", id |-> id, data |-> d] :
             id \in UserIds, d \in StorageData }
    \cup { [op |-> "toggle_user_status", id |-> id, is_active |-> a] :
             id \in UserIds, a \in BOOLEAN }
    \cup { [op |-> "delete_user", id |-> id] : id \in UserIds }

NextStorage ==
    \/ \E data \in StorageCandidates :
          Len(authorities) < StorageRecords /\ add_authority(data) /\ UNCHANGED batch
    \/ \E id \in AuthorityIds, data \in StorageCandidates : update_authority(id, data)
    \/ \E id \in AuthorityIds, a \in BOOLEAN : toggle_authority_status(id, a)
    \/ \E id \in AuthorityIds : delete_authority(id)
    \/ create_user("binh", "user")
    \/ \E id \in UserIds, data \in StorageData : update_user(id, data)
    \/ \E id \in UserIds, a \in BOOLEAN : toggle_user_status(id, a)
    \/ \E id \in UserIds : delete_user(id)
    \/ \E call \in StorageCalls :
          \E q \in DOMAIN QueriesOf(call) : storage_raises(call, q)

SpecStorage == Init /\ [][NextStorage]_vars

\* records of two employees and two approval types, global and scoped to
\* company 1 or 2; the four selectboxes of the list view
FilterCandidates ==
    { Candidate(1, 1, c, FirstDay - 2, NULL, 100) : c \in {NULL, 1, 2} }
    \cup { Candidate(2, 2, 1, FirstDay - 2, FirstDay + 40, NULL) }

FilterSelections ==
    [ employee_id : {NULL, 1}, approval_type_id : {NULL, 1},
      company_id : {NULL, 1, 2}, status : {"All", StatusActive} ]

NextFilter ==
    \/ \E data \in FilterCandidates : add_authority(data) /\ UNCHANGED batch
    \/ \E id \in AuthorityIds, a \in BOOLEAN : toggle_authority_status(id, a)
    \/ \E id \in AuthorityIds : delete_authority(id)
    \/ \E sel \in FilterSelections : render_list_view(sel)

SpecFilter == Init /\ [][NextFilter]_vars

\* submissions that break the rules of validate_authority in every mix: the
\* employee and the approval type missing, sound or deleted; the dates missing,
\* sound, too old and in the wrong order, or more than five years apart; the
\* amount unusable, sound or too large
OrderDates ==
    { <<NULL, NULL>>, <<NULL, FirstDay>>, <<FirstDay - 2, NULL>>,
      <<FirstDay - OneYearDays - 1, FirstDay - OneYearDays - 2>>,
      <<FirstDay - 2, FirstDay + FiveYearDays - 1>> }

OrderCandidates ==
    { Candidate(e, t, NULL, d[1], d[2], amt) :
        e \in {NULL, 1, 3}, t \in {NULL, 1, 3}, d \in OrderDates,
        amt \in {0, 100, MaxAmountLimit + 1} }

NextOrder ==
    \/ \E data \in OrderCandidates : add_authority(data) /\ UNCHANGED batch
    \/ \E id \in AuthorityIds, data \in OrderCandidates : update_authority(id, data)
    \/ \E id \in AuthorityIds, a \in BOOLEAN : toggle_authority_status(id, a)
    \/ \E id \in AuthorityIds : delete_authority(id)

SpecOrder == Init /\ [][NextOrder]_vars

\* batches in which a pair is refused, or the last query of its add_authority
\* call raises, after earlier pairs were created
NextPartial ==
    \/ \E types \in {<<1>>, <<2, 1>>}, companies \in {<<>>, <<1, 2>>} :
          submit_create(1, types, companies, FirstDay, NULL, 0)
    \/ process_batch_create
    \/ /\ batch.pc = "running"
       /\ process_batch_create_raises(
              Len(QueriesOf([op |-> "add_authority", data |-> BatchData(batch)])))
    \/ \E id \in AuthorityIds : batch.pc # "running" /\ delete_authority(id)

SpecPartial == Init /\ [][NextPartial]_vars

\* submissions for one employee: approval type 1 for no company, company 0 and
\* company 1; approval type 2 for company 0 only
CompanyCandidates ==
    { Candidate(1, 1, c, FirstDay - 2, NULL, 100) : c \in {NULL, 0, 1} }
    \cup { Candidate(1, 2, 0, FirstDay - 2, NULL, NULL) }

NextCompany ==
    \/ \E data \in CompanyCandidates : add_authority(data) /\ UNCHANGED batch
    \/ \E id \in AuthorityIds, data \in CompanyCandidates : update_authority(id, data)
    \/ \E id \in AuthorityIds, a \in BOOLEAN : toggle_authority_status(id, a)
    \/ \E id \in AuthorityIds : delete_authority(id)

SpecCompany == Init /\ [][NextCompany]_vars

\* SpecPage starts from a table that fills more than one page of the list:
\* PageRecords records, two for each employee that is not deleted (approval
\* types 1 and 2, all companies), as that many add_authority calls leave them
PageRecords == 22

BulkEmployee(n) == IF n <= 2 THEN n ELSE n + 1

BulkRow(k) ==
    LET t == IF k % 2 = 1 THEN 1 ELSE 2
        d == Candidate(BulkEmployee((k + 1) \div 2), t, NULL, FirstDay - 2, NULL,
                       IF t = 1 THEN 100 ELSE NULL)
    IN  InsertRow(WriteParams(WithTypeCode(d)))

InitPage ==
    /\ today = FirstDay
    /\ authorities = [ k \in 1 .. PageRecords |-> BulkRow(k) ]
    /\ errors = <<>>
    /\ ret = Return("none", TRUE, <<>>)
    /\ view = NoView
    /\ sess = [s \in Sessions |-> Idle]
    /\ users = SeedUsers
    /\ batch = NoBatch
    /\ session_state = [page |-> 0, page_size |-> PageSize]

\* the filters left on "All", or one of them set
PageSelections ==
    { [employee_id |-> NULL, approval_type_id |-> t, company_id |-> NULL, status |-> st] :
        t \in {NULL, 1}, st \in {"All", StatusActive} }

\* the records the buttons of the rows are pressed for
PageIds == {1, 2, PageRecords - 1, PageRecords}

NextPage ==
    \/ \E sel \in PageSelections : render_list_view(sel)
    \/ press_next
    \/ \E id \in PageIds : delete_authority(id)
    \/ \E a \in BOOLEAN : toggle_authority_status(3, a)

SpecPage == InitPage /\ [][NextPage]_vars

\* SpecToggle starts from the seed account alone or with a second account that
\* create_user has added, and makes toggle_user_status calls in two sessions
ToggleTables ==
    { SeedUsers }
    \cup { Append(SeedUsers, [ username |-> "binh", role |-> r,
                               is_active |-> 1, delete_flag |-> 0 ]) :
             r \in {"admin", "user"} }

InitToggle ==
    /\ today = FirstDay
    /\ authorities = <<>>
    /\ errors = <<>>
    /\ ret = Return("none", TRUE, <<>>)
    /\ view = NoView
    /\ sess = [s \in Sessions |-> Idle]
    /\ users \in ToggleTables
    /\ batch = NoBatch
    /\ session_state = [page |-> 0, page_size |-> PageSize]

NextToggle ==
    \/ \E s \in Sessions, id \in UserIds, a \in BOOLEAN : ToggleCheck(s, id, a)
    \/ \E s \in Sessions : ToggleUpdate(s)

SpecToggle == InitToggle /\ [][NextToggle]_vars

(***************************************************************************)
(* Vocabulary of the claims                                                *)
(***************************************************************************)
\* a record that is active, not deleted and not expired today
IsCurrent(r) ==
    r.delete_flag = 0 /\ r.is_active = 1 /\ (r.valid_to = NULL \/ r.valid_to >= today)

SameTuple(r, q) ==
    /\ r.employee_id = q.employee_id
    /\ r.approval_type_id = q.approval_type_id
    /\ r.company_id = q.company_id

\* the company a submission stands for: 0 and absence both mean "all companies"
CandidateCompany(data) ==
    IF data.company_id = NULL \/ data.company_id = 0 THEN NULL ELSE data.company_id

\* C3's definition of a duplicate of `data`, other than record `exclude`
SpecDuplicateExists(data, exclude) ==
    \E i \in DOMAIN authorities :
        LET r == authorities[i]
        IN  /\ r.delete_flag = 0
            /\ r.employee_id = data.employee_id
            /\ r.approval_type_id = data.approval_type_id
            /\ IF CandidateCompany(data) = NULL
               THEN r.company_id = NULL
               ELSE r.company_id # NULL /\ r.company_id = CandidateCompany(data)
            /\ r.is_active = 1
            /\ (r.valid_to = NULL \/ r.valid_to >= today)
            /\ i # exclude

(***************************************************************************)
(* C1: after any single-session sequence of add_authority,                 *)
(* update_authority, toggle_authority_status and delete_authority calls,   *)
(* each (employee, approval type, company-or-null) tuple has at most one   *)
(* record that is active, not deleted and not expired.                     *)
(* Violated: toggle_authority_status re-activates a record without any     *)
(* duplicate check.                                                        *)
(***************************************************************************)
C1_AtMostOneCurrentPerTuple ==
    \A i, j \in DOMAIN authorities :
        (i # j /\ IsCurrent(authorities[i]) /\ IsCurrent(authorities[j]))
            => ~SameTuple(authorities[i], authorities[j])

(***************************************************************************)
(* C3: in every reachable state of the table, for every candidate with an *)
(* employee and an approval type and every exclusion id (none for an       *)
(* insert), validate_authority reports the duplicate message if and only   *)
(* if the table holds a non-deleted, active, non-expired record of the     *)
(* same employee and approval type whose company equals the candidate's    *)
(* (null only with null, a specific company only with itself) and whose id *)
(* is not the excluded one.                                                *)
(***************************************************************************)
C3_DuplicateCheckIff ==
    \A data \in TupleCandidates, exclude \in {NULL} \cup AuthorityIds :
        (MsgDuplicate \in Range(validate_authority(data, exclude)))
            <=> SpecDuplicateExists(data, exclude)

\* an update was refused because another record holds the tuple, although the
\* updated record itself is excluded from the check
C3_Witness ==
    /\ ret.op = "update_authority"
    /\ MsgDuplicate \in Range(errors)
    /\ \E i, j \in DOMAIN authorities :
          i # j /\ IsCurrent(authorities[i]) /\ IsCurrent(authorities[j])

(***************************************************************************)
(* C4: while an active, non-deleted record with no expiry exists for a     *)
(* global-company tuple, add_authority for the identical tuple is rejected *)
(* and inserts nothing, and update_authority of that record with the same  *)
(* tuple is not rejected as a duplicate and succeeds.                      *)
(* Violated in the states C1's defect produces: once a second current      *)
(* record of the tuple exists, the update of either one is refused as a    *)
(* duplicate of the other.                                                 *)
(***************************************************************************)
C4_Precondition(i, data) ==
    /\ i \in DOMAIN authorities
    /\ authorities[i].delete_flag = 0
    /\ authorities[i].is_active = 1
    /\ authorities[i].valid_to = NULL
    /\ authorities[i].company_id = NULL
    /\ CandidateCompany(data) = NULL
    /\ authorities[i].employee_id = data.employee_id
    /\ authorities[i].approval_type_id = data.approval_type_id

C4_AddRejectedUpdateAccepted ==
    [][ \A data \in TupleCandidates, i \in AuthorityIds :
          C4_Precondition(i, data) =>
            /\ add_authority(data) => (~ret'.ok /\ authorities' = authorities)
            /\ update_authority(i, data) =>
                  (MsgDuplicate \notin Range(errors') /\ ret'.ok)
      ]_vars

\* the part of C4 that holds of the code: the insert is always refused
C4_AddRejected ==
    [][ \A data \in TupleCandidates, i \in AuthorityIds :
          (C4_Precondition(i, data) /\ add_authority(data))
              => (~ret'.ok /\ authorities' = authorities)
      ]_vars

(***************************************************************************)
(* C9: whenever validate_authority returns a non-empty list for the        *)
(* candidate, add_authority and update_authority return failure with a     *)
(* message holding every violation message verbatim (so the required-field *)
(* message of each missing field), and the table is left as it was.        *)
(* Violated: a candidate whose approval type is None never reaches         *)
(* validate_authority; int(None) raises and the caller gets "Error: ..."   *)
(* instead of "Approval type is required".                                 *)
(***************************************************************************)
C9_Surfaced(data, exclude) ==
    LET violations == validate_authority(WithTypeCode(data), exclude)
    IN  violations # <<>> =>
          /\ ~ret'.ok
          /\ \A m \in Range(violations) : m \in Range(ret'.message)
          /\ (~Truthy(data.employee_id) => MsgEmployeeRequired \in Range(ret'.message))
          /\ (~Truthy(data.approval_type_id) => MsgTypeRequired \in Range(ret'.message))
          /\ (data.valid_from = NULL => MsgFromRequired \in Range(ret'.message))
          /\ authorities' = authorities

C9_ViolationsSurfacedVerbatim ==
    [][ \A data \in ValidateCandidates :
          /\ add_authority(data) => C9_Surfaced(data, NULL)
          /\ \A id \in AuthorityIds : update_authority(id, data) => C9_Surfaced(data, id)
      ]_vars

\* what the code does guarantee: the same, for candidates whose approval type
\* is not None
C9_SurfacedWhenTypeGiven ==
    [][ \A data \in ValidateCandidates :
          data.approval_type_id # NULL =>
            /\ add_authority(data) => C9_Surfaced(data, NULL)
            /\ \A id \in AuthorityIds :
                  update_authority(id, data) => C9_Surfaced(data, id)
      ]_vars

(***************************************************************************)
(* C10: in every reachable state of the table, for every candidate with    *)
(* both dates present and valid_to earlier than valid_from, the list       *)
(* validate_authority returns contains "Valid to date must be after valid  *)
(* from date", whatever the other fields are (missing or unknown employee  *)
(* or type, bad amount, duplicate), with or without an exclusion id.       *)
(***************************************************************************)
C10_DateOrderAlwaysReported ==
    \A data \in ValidateCandidates, exclude \in {NULL} \cup AuthorityIds :
        \A d \in {data, WithTypeCode(data)} :
            (d.valid_to # NULL /\ d.valid_from # NULL /\ d.valid_to < d.valid_from)
                => MsgDateOrder \in Range(validate_authority(d, exclude))

\* a call reported the date order next to a missing employee, an unknown
\* approval type, a bad amount ...
C10_Witness ==
    /\ ret.op \in {"add_authority", "update_authority"}
    /\ MsgDateOrder \in Range(errors)
    /\ MsgEmployeeRequired \in Range(errors)
    /\ MsgNoType \in Range(errors)
    /\ MsgAmountRequired \in Range(errors)

\* ... and, for another candidate, next to a duplicate
C10_WitnessDuplicate ==
    /\ ret.op \in {"add_authority", "update_authority"}
    /\ MsgDateOrder \in Range(errors)
    /\ MsgDuplicate \in Range(errors)

(***************************************************************************)
(* Vocabulary of the listing claims                                        *)
(***************************************************************************)
\* the classifier as specified: first match of Inactive, Expired, Expiring
\* Soon, Active
Classify(isActive, validTo, t) ==
    IF ~isActive THEN "Inactive"
    ELSE IF validTo # NULL /\ validTo < t THEN "Expired"
    ELSE IF validTo # NULL /\ validTo <= t + 30 THEN "Expiring Soon"
    ELSE "Active"

RowIds(rows) == { rows[k].id : k \in DOMAIN rows }

OnlyStatusFilter(status) ==
    [employee_id |-> NULL, approval_type_id |-> NULL, company_id |-> NULL,
     status |-> status]

\* the boundaries of C5 for an active/inactive flag, an expiry d and a status st
C5_Boundaries(active, d, st) ==
    IF active = 0 THEN st = "Inactive"
    ELSE /\ (st = "Expired") <=> (d # NULL /\ d < today)
         /\ (st = "Expiring Soon") <=> (d # NULL /\ today <= d /\ d <= today + 30)
         /\ (st = "Active") <=> (d = NULL \/ d > today + 30)
         /\ st # "Inactive"

(***************************************************************************)
(* C5: the status column of every stored record, and of every row a render *)
(* of the list displays, follows the precedence Inactive, Expired,         *)
(* Expiring Soon, Active: an inactive record is Inactive whatever its      *)
(* dates; an active one is Expired iff valid_to < today, Expiring Soon iff *)
(* today <= valid_to <= today + 30 (valid_to = today included), Active iff *)
(* valid_to is null or later than today + 30.                              *)
(***************************************************************************)
C5_StatusPrecedence ==
    /\ \A i \in DOMAIN authorities :
          C5_Boundaries(authorities[i].is_active, authorities[i].valid_to,
                        StatusColumn(authorities[i]))
    /\ \A k \in DOMAIN view.rows :
          C5_Boundaries(view.rows[k].is_active, view.rows[k].valid_to,
                        view.rows[k].status)

\* a page shows a record expiring today as Expiring Soon, next to one that
\* expired yesterday
C5_Witness ==
    /\ view.rendered
    /\ \E k \in DOMAIN view.rows :
          view.rows[k].valid_to = today /\ view.rows[k].status = "Expiring Soon"
    /\ \E k \in DOMAIN view.rows :
          view.rows[k].valid_to = today - 1 /\ view.rows[k].status = "Expired"

(***************************************************************************)
(* C6: a render with only the status filter S set (nothing cut off by      *)
(* paging) lists a non-deleted record if and only if its status column is  *)
(* S.                                                                      *)
(* Violated: the Active filter also returns Expiring Soon records, and the *)
(* Expired and Expiring Soon filters also return inactive records.         *)
(***************************************************************************)
C6_StatusFilterIsStatusColumn ==
    (view.rendered /\ view.filters.status # NoStatus /\ ~view.has_next) =>
        \A i \in DOMAIN authorities :
            authorities[i].delete_flag = 0 =>
                ((i \in RowIds(view.rows))
                    <=> (StatusColumn(authorities[i]) = view.filters.status))

(***************************************************************************)
(* C7: a render with only the filter status = 'Expiring Soon' lists every  *)
(* active, non-deleted record whose valid_to lies in [today, today + 30]   *)
(* and lists no record whose valid_to is null or later than today + 30.    *)
(***************************************************************************)
C7_ExpiringSoonFilter ==
    (view.rendered /\ view.filters = OnlyStatusFilter("Expiring Soon")) =>
        /\ \A i \in DOMAIN authorities :
              LET r == authorities[i]
              IN  (r.delete_flag = 0 /\ r.is_active = 1 /\ r.valid_to # NULL
                      /\ today <= r.valid_to /\ r.valid_to <= today + 30)
                    => i \in RowIds(view.rows)
        /\ \A k \in DOMAIN view.rows :
              view.rows[k].valid_to # NULL /\ view.rows[k].valid_to <= today + 30

\* of an active record expiring in 10 days and one expiring in 40 days, the
\* page lists only the first
C7_Witness ==
    /\ view.rendered /\ view.filters = OnlyStatusFilter("Expiring Soon")
    /\ \E i, j \in DOMAIN authorities :
          /\ IsCurrent(authorities[i]) /\ authorities[i].valid_to = today + 10
          /\ IsCurrent(authorities[j]) /\ authorities[j].valid_to = today + 40
          /\ RowIds(view.rows) = {i}

(***************************************************************************)
(* C8: on every rendered page with records, each of the four summary       *)
(* counters equals the number of rows of the page that the classifier      *)
(* puts in that status, and the four counters add up to the number of rows.*)
(***************************************************************************)
C8_Classified(st) ==
    Cardinality({ k \in DOMAIN view.rows :
                    Classify(view.rows[k].is_active = 1, view.rows[k].valid_to, today)
                        = st })

C8_SummaryCounters ==
    (view.rendered /\ view.rows # <<>>) =>
        /\ view.metrics.active = C8_Classified("Active")
        /\ view.metrics.inactive = C8_Classified("Inactive")
        /\ view.metrics.expired = C8_Classified("Expired")
        /\ view.metrics.expiring = C8_Classified("Expiring Soon")
        /\ view.metrics.active + view.metrics.inactive + view.metrics.expired
             + view.metrics.expiring = Len(view.rows)

\* a page counted one expired and one expiring record
C8_Witness ==
    /\ view.rendered /\ Len(view.rows) = 2
    /\ view.metrics.expired = 1 /\ view.metrics.expiring = 1

(***************************************************************************)
(* C2: with two sessions whose add_authority calls interleave query by     *)
(* query, a call that has passed the duplicate check completes its INSERT  *)
(* and returns success whatever the other session wrote in between: the    *)
(* step adds one more active, non-deleted, non-expired record of its       *)
(* tuple.  So the state of C2_Witness is reached: both calls for one tuple *)
(* returned success and two such records of the tuple exist.               *)
(***************************************************************************)
C2_CurrentOfTuple(table, data) ==
    { i \in DOMAIN table :
        /\ table[i].delete_flag = 0 /\ table[i].is_active = 1
        /\ (table[i].valid_to = NULL \/ table[i].valid_to >= today)
        /\ table[i].employee_id = data.employee_id
        /\ table[i].approval_type_id = data.approval_type_id
        /\ table[i].company_id = CandidateCompany(data) }

C2_InsertIgnoresConcurrentWrite ==
    [][ \A s \in Sessions :
          (sess[s].pc = "insert" /\ sess'[s].pc = "done") =>
            /\ sess'[s].ret.ok
            /\ Cardinality(C2_CurrentOfTuple(authorities', sess[s].data))
                 = Cardinality(C2_CurrentOfTuple(authorities, sess[s].data)) + 1
      ]_vars

\* both sessions' calls for the same tuple returned success and the table holds
\* two current records of that tuple (no record is ever re-activated or
\* rewritten here, so both came in past the check)
C2_Witness ==
    /\ \A s \in Sessions : sess[s].pc = "done" /\ sess[s].ret.ok
    /\ sess[1].data = sess[2].data
    /\ Cardinality(C2_CurrentOfTuple(authorities, sess[1].data)) = 2

(***************************************************************************)
(* C11: in every reachable state, for every candidate whose approval-type  *)
(* code is one of PO_SUGGESTION, PO_CANCELLATION, OC_CANCELLATION,         *)
(* OC_RETURN, validate_authority reports no amount message iff             *)
(* 0 < max_amount <= 999999999: it reports "Maximum amount must be         *)
(* specified and greater than 0" iff the amount is missing or <= 0, and    *)
(* the distinct "Maximum amount is too large" iff it exceeds 999999999.    *)
(* So 0 is refused, 1 and 999999999 pass, 1000000000 is too large.         *)
(***************************************************************************)
C11_AmountMessages(amt) ==
    Range(validate_authority(
            WithTypeCode(Candidate(1, 1, NULL, FirstDay - 2, NULL, amt)), NULL))
        \cap {MsgAmountRequired, MsgAmountTooLarge}

C11_AmountBoundaries ==
    /\ \A data \in WriteCandidates, exclude \in {NULL} \cup AuthorityIds :
          LET d    == WithTypeCode(data)
              errs == Range(validate_authority(d, exclude))
          IN  d.approval_type_code
                  \in {"PO_SUGGESTION", "PO_CANCELLATION", "OC_CANCELLATION", "OC_RETURN"}
              => /\ (MsgAmountRequired \in errs)
                        <=> (d.max_amount = NULL \/ d.max_amount <= 0)
                 /\ (MsgAmountTooLarge \in errs)
                        <=> (d.max_amount # NULL /\ d.max_amount > 999999999)
                 /\ (errs \cap {MsgAmountRequired, MsgAmountTooLarge} = {})
                        <=> (d.max_amount # NULL /\ 0 < d.max_amount
                                /\ d.max_amount <= 999999999)
    /\ C11_AmountMessages(NULL) = {MsgAmountRequired}
    /\ C11_AmountMessages(0) = {MsgAmountRequired}
    /\ C11_AmountMessages(1) = {}
    /\ C11_AmountMessages(999999999) = {}
    /\ C11_AmountMessages(1000000000) = {MsgAmountTooLarge}

\* records with the amounts 1 and 999999999 were accepted, and the last call,
\* with a larger amount, was refused as too large
C11_Witness ==
    /\ ret.op = "add_authority" /\ ~ret.ok
    /\ errors = <<MsgAmountTooLarge>>
    /\ \E i, j \in DOMAIN authorities :
          authorities[i].max_amount = 1 /\ authorities[j].max_amount = 999999999

(***************************************************************************)
(* C12: every stored record whose approval-type code is not one of         *)
(* PO_SUGGESTION, PO_CANCELLATION, OC_CANCELLATION, OC_RETURN has a null   *)
(* max_amount, also when the caller of add_authority or update_authority   *)
(* supplied an amount.                                                     *)
(* Violated: add_authority and update_authority bind                       *)
(* float(data['max_amount']) whatever the type code is; only the batch     *)
(* loop of the view drops the amount for such a type.                      *)
(***************************************************************************)
C12_TypeCode(r) ==
    (CHOOSE t \in approval_types : t.id = r.approval_type_id).code

C12_NonAmountTypeHasNullAmount ==
    \A i \in DOMAIN authorities :
        C12_TypeCode(authorities[i])
            \notin {"PO_SUGGESTION", "PO_CANCELLATION", "OC_CANCELLATION", "OC_RETURN"}
          => authorities[i].max_amount = NULL

(***************************************************************************)
(* C13: every stored record (each was inserted by add_authority or         *)
(* rewritten by update_authority on the day `today`) has                   *)
(* valid_from >= today - 365 and, when valid_to is present,                *)
(* valid_from <= valid_to and valid_to - valid_from <= 1825; and for every *)
(* candidate validate_authority reports a date message exactly when one of *)
(* these fails, so a start exactly 365 days back, equal dates and a span   *)
(* of exactly 1825 days are accepted and a span of 1826 days is refused.   *)
(***************************************************************************)
C13_DatesSound(r) ==
    /\ r.valid_from # NULL
    /\ r.valid_from >= today - 365
    /\ r.valid_to # NULL =>
          (r.valid_from <= r.valid_to /\ r.valid_to - r.valid_from <= 1825)

C13_WrittenDatesSound ==
    /\ \A i \in DOMAIN authorities : C13_DatesSound(authorities[i])
    /\ \A data \in WriteCandidates, exclude \in {NULL} \cup AuthorityIds :
          (Range(validate_authority(WithTypeCode(data), exclude))
              \cap {MsgFromRequired, MsgFromTooOld, MsgDateOrder, MsgDateRange} = {})
            <=> C13_DatesSound(data)

\* the table holds a record that starts exactly 365 days back and ends the
\* same day, and one that starts then and spans exactly 1825 days, one of
\* them put there by update_authority
C13_Witness ==
    /\ ret.op = "update_authority" /\ ret.ok
    /\ \E i, j \in DOMAIN authorities :
          /\ authorities[i].valid_from = today - 365
          /\ authorities[i].valid_to = authorities[i].valid_from
          /\ authorities[j].valid_from = today - 365
          /\ authorities[j].valid_to - authorities[j].valid_from = 1825

(***************************************************************************)
(* Vocabulary of the batch claims                                          *)
(***************************************************************************)
\* the pair attempt number k of a batch is for: outer loop over the types,
\* inner loop over the companies
PairOf(types, companies, k) ==
    [ type_id    |-> types[((k - 1) \div Len(companies)) + 1],
      company_id |-> companies[((k - 1) % Len(companies)) + 1] ]

\* the label and reason a failed attempt is reported with
FailureEntry(a) ==
    << (CHOOSE t \in approval_types : t.id = a.type_id).name, " - ",
       IF a.company_id = NULL THEN "All Companies"
       ELSE IF a.company_id = 1 THEN "Company 1" ELSE "Company 2",
       ": " >> \o a.message

FailedAttempts(attempts) == SelectSeq(attempts, LAMBDA a : ~a.success)

(***************************************************************************)
(* C14: a batch calls add_authority once for every (approval type,         *)
(* company) pair of its lists, outer loop over the types and inner loop    *)
(* over the companies in the given order, and goes on after a rejection:   *)
(* it ends only when all |types| x |companies| pairs were attempted, then  *)
(* success_count plus the number of failure entries is that product;       *)
(* success_count is the number of accepted attempts, and the failure       *)
(* entries are the rejected attempts in attempt order, each with the       *)
(* pair's type name, its company and the message add_authority gave.       *)
(***************************************************************************)
C14_BatchAttemptsEveryPair ==
    LET total == Len(batch.type_ids) * Len(batch.company_ids)
    IN  /\ Len(batch.attempts) <= total
        /\ \A k \in DOMAIN batch.attempts :
              /\ batch.attempts[k].type_id
                    = PairOf(batch.type_ids, batch.company_ids, k).type_id
              /\ batch.attempts[k].company_id
                    = PairOf(batch.type_ids, batch.company_ids, k).company_id
        /\ (batch.pc = "running") <=> (Len(batch.attempts) < total)
        /\ (batch.pc = "done") => (batch.success_count + Len(batch.errors) = total)
        /\ batch.success_count
              = Cardinality({ k \in DOMAIN batch.attempts : batch.attempts[k].success })
        /\ Len(batch.errors) = Len(FailedAttempts(batch.attempts))
        /\ \A k \in DOMAIN batch.errors :
              /\ batch.errors[k] = FailureEntry(FailedAttempts(batch.attempts)[k])
              /\ FailedAttempts(batch.attempts)[k].message # <<>>

\* a batch of 2 types x 2 companies ended with its first two pairs refused
\* and its last two created
C14_Witness ==
    /\ batch.pc = "done"
    /\ Len(batch.attempts) = 4
    /\ ~batch.attempts[1].success /\ ~batch.attempts[2].success
    /\ batch.attempts[3].success /\ batch.attempts[4].success
    /\ batch.success_count = 2 /\ Len(batch.errors) = 2

(***************************************************************************)
(* C15: a create submission with 2 approval types and the 3 company        *)
(* options "All Companies", company 1 and company 2 makes exactly 6        *)
(* attempts in nested (type, company) order; if the 4th alone is refused,  *)
(* success_count is 5 and the one failure entry is the 4th pair's.         *)
(* Violated: the form replaces a selection that contains "All Companies"   *)
(* by the single global entry, so the submission makes 2 attempts.         *)
(***************************************************************************)
C15_SixAttemptsForThreeCompanyOptions ==
    (batch.pc = "done" /\ Len(batch.type_ids) = 2
        /\ batch.selected_company_ids = <<0, 1, 2>>) =>
        /\ Len(batch.attempts) = 6
        /\ \A k \in DOMAIN batch.attempts :
              /\ batch.attempts[k].type_id
                    = PairOf(batch.type_ids, <<NULL, 1, 2>>, k).type_id
              /\ batch.attempts[k].company_id
                    = PairOf(batch.type_ids, <<NULL, 1, 2>>, k).company_id
        /\ ({ k \in DOMAIN batch.attempts : ~batch.attempts[k].success } = {4}) =>
              /\ batch.success_count = 5
              /\ batch.errors = << FailureEntry(batch.attempts[4]) >>

(***************************************************************************)
(* C16: no step of any sequence of add_authority, update_authority,        *)
(* toggle_authority_status and delete_authority calls removes a stored     *)
(* record id; and delete_authority on an existing record succeeds, leaves  *)
(* the number of stored records as it was and leaves that record with      *)
(* delete_flag = 1 and is_active = 0.                                      *)
(***************************************************************************)
C16_DeleteKeepsRow ==
    [][ /\ DOMAIN authorities \subseteq DOMAIN authorities'
        /\ \A id \in AuthorityIds :
              (id \in DOMAIN authorities /\ delete_authority(id)) =>
                  /\ ret'.ok
                  /\ Len(authorities') = Len(authorities)
                  /\ authorities'[id].delete_flag = 1
                  /\ authorities'[id].is_active = 0
      ]_vars

\* delete_authority has just succeeded on a record that was active: both
\* records are still stored, one of them deleted and inactive
C16_Witness ==
    /\ ret.op = "delete_authority" /\ ret.ok
    /\ Len(authorities) = 2
    /\ \E i \in DOMAIN authorities :
          authorities[i].delete_flag = 1 /\ authorities[i].is_active = 0
    /\ \E i \in DOMAIN authorities : authorities[i].delete_flag = 0

(***************************************************************************)
(* C17: whichever query of add_authority, update_authority,                *)
(* toggle_authority_status, delete_authority, create_user, update_user,    *)
(* toggle_user_status or delete_user the storage raises on, the operation  *)
(* returns (False, "Error: " followed by the text of the exception) and    *)
(* both tables are left as they were: in every reachable state, for every  *)
(* call and every query it would issue, no earlier query of the call is a  *)
(* write and the outcome of that query raising is this return value with   *)
(* unchanged tables.                                                       *)
(***************************************************************************)
C17_StorageFailureIsCaught ==
    \A call \in StorageCalls :
        \A q \in DOMAIN QueriesOf(call) :
            /\ storage_outcome(call, q).ret
                  = [ op |-> call.op, ok |-> FALSE,
                      message |-> <<"Error: ", StorageErrorText, QueriesOf(call)[q]>> ]
            /\ storage_outcome(call, q).authorities = authorities
            /\ storage_outcome(call, q).users = users
            /\ \A k \in 1 .. (q - 1) : QueriesOf(call)[k] \notin WriteStatements

\* the UPDATE of toggle_user_status raised after the last-admin check had
\* passed: the account is still active
C17_Witness ==
    /\ ret = Return("toggle_user_status", FALSE,
                    <<"Error: ", StorageErrorText, "UPDATE users">>)
    /\ Len(users) = 2
    /\ \A i \in DOMAIN users : users[i].is_active = 1 /\ users[i].delete_flag = 0

\* the INSERT of add_authority raised after validation had passed
C17_WitnessInsert ==
    /\ ret = Return("add_authority", FALSE,
                    <<"Error: ", StorageErrorText, "INSERT INTO approval_authorities">>)
    /\ authorities = <<>>

(***************************************************************************)
(* Vocabulary of the user claims                                           *)
(***************************************************************************)
\* the accounts with role admin that are active and not deleted
ActiveAdmins(table) ==
    { i \in DOMAIN table :
        table[i].role = "admin" /\ table[i].is_active = 1 /\ table[i].delete_flag = 0 }

(***************************************************************************)
(* C18: starting with an active, non-deleted admin account, every state    *)
(* reached by create_user, update_user, toggle_user_status and delete_user *)
(* calls holds at least one user with role admin, is_active = 1 and        *)
(* delete_flag = 0.                                                        *)
(* Violated: update_user writes the submitted role and active flag with no *)
(* last-admin check, and delete_user counts inactive admins (C20).         *)
(***************************************************************************)
C18_ActiveAdminRemains == ActiveAdmins(users) # {}

(***************************************************************************)
(* C19: toggle_user_status(id, False) on the only active, non-deleted      *)
(* admin returns (False, "Cannot deactivate the last admin user") and      *)
(* changes no stored field; on an admin account while another active,      *)
(* non-deleted admin exists it returns success and leaves that account     *)
(* with is_active = 0.                                                     *)
(***************************************************************************)
C19_LastAdminNotDeactivated ==
    [][ \A id \in UserIds :
          toggle_user_status(id, FALSE) =>
            /\ ActiveAdmins(users) = {id} =>
                  /\ ret' = [ op |-> "toggle_user_status", ok |-> FALSE,
                              message |-> <<"Cannot deactivate the last admin user">> ]
                  /\ users' = users
            /\ (id \in DOMAIN users /\ users[id].role = "admin"
                  /\ ActiveAdmins(users) \ {id} # {}) =>
                  /\ ret'.ok
                  /\ users'[id].is_active = 0
                  /\ \A i \in DOMAIN users : i # id => users'[i] = users[i]
      ]_vars

\* the deactivation of the only active admin has just been refused
C19_Witness ==
    /\ ret = Return("toggle_user_status", FALSE, <<MsgLastAdminToggle>>)
    /\ Cardinality(ActiveAdmins(users)) = 1
    /\ Len(users) = 2

\* one of two admins has just been deactivated
C19_WitnessDeactivated ==
    /\ ret = Return("toggle_user_status", TRUE, <<MsgUserDeactivated>>)
    /\ Cardinality(ActiveAdmins(users)) = 1
    /\ \E i \in DOMAIN users :
          users[i].role = "admin" /\ users[i].is_active = 0 /\ users[i].delete_flag = 0

(***************************************************************************)
(* C20: delete_user on an admin account, when no other admin with          *)
(* is_active = 1 and delete_flag = 0 exists, returns (False, "Cannot       *)
(* delete the last admin user") and leaves the table as it was.            *)
(* Violated: the check counts the admins that are not deleted, active or   *)
(* not, so the only active admin is deleted while a deactivated admin      *)
(* account exists.                                                         *)
(***************************************************************************)
C20_LastAdminNotDeleted ==
    [][ \A id \in UserIds :
          (id \in DOMAIN users /\ users[id].role = "admin"
              /\ ActiveAdmins(users) \ {id} = {} /\ delete_user(id)) =>
            /\ ret' = [ op |-> "delete_user", ok |-> FALSE,
                        message |-> <<"Cannot delete the last admin user">> ]
            /\ users' = users
      ]_vars

(***************************************************************************)
(* C21: a render of the list (nothing cut off by paging) shows each        *)
(* matching record once, and shows a record if and only if it is not       *)
(* deleted and passes every filter that is set: the employee filter and    *)
(* the approval-type filter by equality, the company filter c by "company  *)
(* is c or company is null", the status filter by its condition.  A filter *)
(* that is not set excludes nothing; a record of another company is never  *)
(* shown under the company filter c.                                       *)
(***************************************************************************)
C21_Passes(r, f) ==
    /\ r.delete_flag = 0
    /\ (f.employee_id = NULL \/ r.employee_id = f.employee_id)
    /\ (f.approval_type_id = NULL \/ r.approval_type_id = f.approval_type_id)
    /\ (f.company_id = NULL \/ r.company_id = f.company_id \/ r.company_id = NULL)
    /\ (f.status = NoStatus \/ StatusFilter(r, f.status))

C21_CompanyFilterIncludesGlobal ==
    (view.rendered /\ ~view.has_next) =>
        /\ RowIds(view.rows)
             = { i \in DOMAIN authorities : C21_Passes(authorities[i], view.filters) }
        /\ Cardinality(RowIds(view.rows)) = Len(view.rows)
        /\ view.filters.company_id # NULL =>
              \A k \in DOMAIN view.rows :
                  view.rows[k].company_id \in {view.filters.company_id, NULL}

\* under the company filter 1 alone the page shows the global record and not
\* the record of company 2
C21_Witness ==
    /\ view.rendered
    /\ view.filters = [NoFilters EXCEPT !.company_id = 1]
    /\ \E i, j \in DOMAIN authorities :
          /\ authorities[i].company_id = NULL /\ authorities[i].delete_flag = 0
          /\ authorities[j].company_id = 2 /\ authorities[j].delete_flag = 0
          /\ RowIds(view.rows) = {i}

\* the employee and approval-type filters together leave only the records of
\* that employee and type
C21_WitnessNarrowed ==
    /\ view.rendered
    /\ view.filters = [NoFilters EXCEPT !.employee_id = 1, !.approval_type_id = 1]
    /\ Len(view.rows) = 1
    /\ \E j \in DOMAIN authorities :
          authorities[j].employee_id = 2 /\ authorities[j].delete_flag = 0
(***************************************************************************)
(* C22: no two accounts with delete_flag = 0 ever have the same username.  *)
(* create_user with a username that an account with delete_flag = 0 holds  *)
(* returns (False, "Username already exists") and leaves the table as it   *)
(* was; with a username that no such account holds, deleted accounts of    *)
(* that name or not, it appends an active, non-deleted account of that     *)
(* name and returns success.                                               *)
(***************************************************************************)
C22_Holders(username) ==
    { i \in DOMAIN users : users[i].username = username /\ users[i].delete_flag = 0 }

C22_UsernameUnique ==
    /\ [](\A u \in Usernames : Cardinality(C22_Holders(u)) <= 1)
    /\ [][ \A u \in Usernames, r \in Roles :
              create_user(u, r) =>
                IF C22_Holders(u) # {}
                THEN /\ ret' = [ op |-> "create_user", ok |-> FALSE,
                                 message |-> <<"Username already exists">> ]
                     /\ users' = users
                ELSE /\ ret'.ok
                     /\ Len(users') = Len(users) + 1
                     /\ SubSeq(users', 1, Len(users)) = users
                     /\ users'[Len(users')].username = u
                     /\ users'[Len(users')].delete_flag = 0
          ]_vars

\* the name of a deleted account has just been given to a new account
C22_Witness ==
    /\ ret = Return("create_user", TRUE, <<MsgUserCreated>>)
    /\ \E i, j \in DOMAIN users :
          /\ users[i].username = users[j].username
          /\ users[i].delete_flag = 1 /\ users[j].delete_flag = 0

\* a second account of a name in use has just been refused
C22_WitnessRefused ==
    /\ ret = Return("create_user", FALSE, <<MsgUsernameExists>>)
    /\ Len(users) = 1
(***************************************************************************)
(* C23: for every submission and every excluded id, validate_authority     *)
(* returns the messages of all the checks the submission violates, each    *)
(* once, in the order: employee required, approval type required, valid    *)
(* from required, employee exists, approval type exists, valid from not    *)
(* older than 365 days, valid to not before valid from, span at most 1825  *)
(* days, amount (missing or not positive, else too large), duplicate.  The *)
(* list is empty iff no check is violated.  A step of add_authority or     *)
(* update_authority changes the table only when the list was empty and     *)
(* then returns success; with a non-empty list it returns failure and the  *)
(* table stays as it was.                                                  *)
(***************************************************************************)
C23_Resolves(table, id) == \E x \in table : x.id = id /\ x.delete_flag = 0

\* the checks in the order of the list: <<violated, message>>
C23_Checks(d, exclude) ==
    << <<d.employee_id \in {NULL, 0}, "Employee is required">>,
       <<d.approval_type_id \in {NULL, 0}, "Approval type is required">>,
       <<d.valid_from = NULL, "Valid from date is required">>,
       <<d.employee_id \notin {NULL, 0} /\ ~C23_Resolves(employees, d.employee_id),
         "Selected employee does not exist">>,
       <<d.approval_type_id \notin {NULL, 0}
            /\ ~C23_Resolves(approval_types, d.approval_type_id),
         "Selected approval type does not exist">>,
       <<d.valid_from # NULL /\ ~(d.valid_from >= today - 365),
         "Valid from date cannot be more than 1 year in the past">>,
       <<d.valid_from # NULL /\ d.valid_to # NULL /\ ~(d.valid_to >= d.valid_from),
         "Valid to date must be after valid from date">>,
       <<d.valid_from # NULL /\ d.valid_to # NULL
            /\ ~(d.valid_to - d.valid_from <= 1825),
         "Date range cannot exceed 5 years">>,
       <<d.approval_type_code \in AmountTypeCodes
            /\ (d.max_amount = NULL \/ d.max_amount <= 0),
         "Maximum amount must be specified and greater than 0">>,
       <<d.approval_type_code \in AmountTypeCodes
            /\ d.max_amount # NULL /\ d.max_amount > 999999999,
         "Maximum amount is too large">>,
       <<d.employee_id \notin {NULL, 0} /\ d.approval_type_id \notin {NULL, 0}
            /\ SpecDuplicateExists(d, exclude),
         "Active authority already exists for this combination">> >>

RECURSIVE C23_Violations(_)
C23_Violations(checks) ==
    IF checks = <<>> THEN <<>>
    ELSE (IF Head(checks)[1] THEN <<Head(checks)[2]>> ELSE <<>>)
         \o C23_Violations(Tail(checks))

C23_AllViolationsInOrder ==
    /\ [](\A data \in OrderCandidates, exclude \in {NULL} \cup AuthorityIds :
            validate_authority(WithTypeCode(data), exclude)
              = C23_Violations(C23_Checks(WithTypeCode(data), exclude)))
    /\ [][ ret'.op \in {"add_authority", "update_authority"} =>
              /\ authorities' # authorities => (errors' = <<>> /\ ret'.ok)
              /\ errors' # <<>> => (authorities' = authorities /\ ~ret'.ok)
          ]_vars

\* a submission with a start too old, an end before the start and no amount,
\* for a tuple that has a current record: four messages, in the fixed order
C23_Witness ==
    /\ ret.op = "add_authority" /\ ~ret.ok
    /\ errors = << MsgFromTooOld, MsgDateOrder, MsgAmountRequired, MsgDuplicate >>
    /\ \E i \in DOMAIN authorities : IsCurrent(authorities[i])

\* a submission without employee and start date for a deleted approval type
C23_WitnessRequired ==
    /\ errors = << MsgEmployeeRequired, MsgFromRequired, MsgNoType, MsgAmountRequired >>
    /\ ~ret.ok

\* the one sound submission has been written
C23_WitnessWritten ==
    /\ ret = Return("add_authority", TRUE, <<MsgAdded>>)
    /\ errors = <<>>
    /\ Len(authorities) = 1
(***************************************************************************)
(* C24: while a batch runs no stored record is changed or removed, so the  *)
(* records of the pairs created earlier in the batch stay as they were     *)
(* when a later pair is refused or raises; and after each attempt of a     *)
(* batch, up to and including its last, every pair the batch has created   *)
(* so far has its record in the table, active and not deleted.             *)
(***************************************************************************)
C24_Created(a) ==
    \E i \in DOMAIN authorities :
        /\ authorities[i].employee_id = batch.employee_id
        /\ authorities[i].approval_type_id = a.type_id
        /\ authorities[i].company_id = a.company_id
        /\ authorities[i].is_active = 1
        /\ authorities[i].delete_flag = 0

C24_BatchNotAtomic ==
    /\ []((ret.op = "add_authority" /\ batch.attempts # <<>>) =>
            \A k \in DOMAIN batch.attempts :
                batch.attempts[k].success => C24_Created(batch.attempts[k]))
    /\ [][ batch.pc = "running" =>
              /\ Len(authorities') >= Len(authorities)
              /\ \A i \in DOMAIN authorities : authorities'[i] = authorities[i]
          ]_vars

\* a batch has ended: its first two pairs were created, its last two refused,
\* and the two records are stored
C24_Witness ==
    /\ batch.pc = "done" /\ ret.op = "add_authority"
    /\ Len(batch.attempts) = 4
    /\ batch.attempts[1].success /\ batch.attempts[2].success
    /\ ~batch.attempts[3].success /\ ~batch.attempts[4].success
    /\ Len(authorities) = 2
    /\ \A i \in DOMAIN authorities : IsCurrent(authorities[i])

\* a batch has ended with a pair whose INSERT raised after a pair was created
C24_WitnessRaised ==
    /\ batch.pc = "done" /\ ret.op = "add_authority"
    /\ \E k \in DOMAIN batch.attempts :
          /\ k > 1 /\ batch.attempts[k - 1].success
          /\ ~batch.attempts[k].success
          /\ batch.attempts[k].message
                = <<ErrorPrefix, StorageErrorText, "INSERT INTO approval_authorities">>
    /\ \E i \in DOMAIN authorities : IsCurrent(authorities[i])
(***************************************************************************)
(* C25: a submission with company id 0 is treated as the same submission   *)
(* with no company id.  In every state validate_authority returns the same *)
(* list for both, the duplicate query counts only records with a null      *)
(* company for them, and both bind a null company to the INSERT and the    *)
(* UPDATE; no stored record has company id 0; and a step is an             *)
(* add_authority or update_authority call with the one exactly when it is  *)
(* that call with the other.                                               *)
(***************************************************************************)
C25_Absent(data) == [data EXCEPT !.company_id = NULL]

C25_ZeroCompanyIsGlobal ==
    /\ [](/\ \A i \in DOMAIN authorities : authorities[i].company_id # 0
          /\ \A data \in CompanyCandidates, exclude \in {NULL} \cup AuthorityIds :
                data.company_id = 0 =>
                  /\ validate_authority(WithTypeCode(data), exclude)
                       = validate_authority(WithTypeCode(C25_Absent(data)), exclude)
                  /\ WriteParams(data).company_id = NULL
                  /\ WriteParams(C25_Absent(data)).company_id = NULL
                  /\ \A i \in DuplicateRows(data, exclude) \cup
                              DuplicateRows(C25_Absent(data), exclude) :
                        authorities[i].company_id = NULL)
    /\ [][ \A data \in CompanyCandidates :
              data.company_id = 0 =>
                /\ add_authority(data) <=> add_authority(C25_Absent(data))
                /\ \A id \in AuthorityIds :
                      update_authority(id, data) <=> update_authority(id, C25_Absent(data))
          ]_vars

\* the submission of approval type 2 for company 0 has been stored as a global
\* record, and a second submission for a tuple with a current global record
\* has just been refused as a duplicate
C25_Witness ==
    /\ \E i \in DOMAIN authorities :
          /\ authorities[i].approval_type_id = 2
          /\ authorities[i].company_id = NULL
          /\ IsCurrent(authorities[i])
    /\ ret = Return("add_authority", FALSE, <<MsgDuplicate>>)
(***************************************************************************)
(* C26: a render of the list for page p with page size n queries with      *)
(* limit n + 1 and offset p * n and shows at most n rows, each a matching  *)
(* record, none twice; has_next is true if and only if more than n         *)
(* matching records exist from offset p * n on, and then exactly n rows    *)
(* are shown (the extra row is dropped), otherwise all that remain.  This  *)
(* holds of every page on display and of the page the render would make    *)
(* for page 0 and for page 1.                                              *)
(***************************************************************************)
C26_Matching(f) == { i \in DOMAIN authorities : C21_Passes(authorities[i], f) }

C26_PageOf(v, p, n) ==
    LET remaining == Cardinality(C26_Matching(v.filters)) - p * n
    IN  /\ v.page = p
        /\ v.limit = n + 1
        /\ v.offset = p * n
        /\ Len(v.rows) <= n
        /\ v.has_next <=> (remaining > n)
        /\ Len(v.rows) = IF remaining > n THEN n
                         ELSE IF remaining < 0 THEN 0 ELSE remaining
        /\ RowIds(v.rows) \subseteq C26_Matching(v.filters)
        /\ Cardinality(RowIds(v.rows)) = Len(v.rows)

C26_ExtraRowTellsNextPage ==
    /\ view.rendered => C26_PageOf(view, session_state.page, 20)
    /\ \A p \in {0, 1} : \A v \in list_page(NoFilters, p) : C26_PageOf(v, p, 20)

\* 21 records match: the page shows 20 of them and has a next page
C26_Witness ==
    /\ view.rendered /\ view.has_next
    /\ Len(view.rows) = 20
    /\ Cardinality(C26_Matching(view.filters)) = 21

\* exactly 20 records match: the page shows them all and has no next page
C26_WitnessFullPage ==
    /\ view.rendered /\ ~view.has_next
    /\ Len(view.rows) = 20
    /\ Cardinality(C26_Matching(view.filters)) = 20

(***************************************************************************)
(* C28: when page p is on display with has_next true and Next is pressed,  *)
(* the page displayed next is page p + 1, queried at offset                *)
(* (p + 1) * page_size.                                                    *)
(* Violated: every script run executes _render_filters, which ends with    *)
(* st.session_state.page = 0, before the query; the run that follows the   *)
(* press queries offset 0 again and page 0 stays on display.               *)
(***************************************************************************)
C28_NextShowsNextPage ==
    (view.rendered /\ view.pressed = "Next") =>
        /\ view.page = view.pressed_on + 1
        /\ view.offset = (view.pressed_on + 1) * 20
(***************************************************************************)
(* C27: no step of add_authority, update_authority or                      *)
(* toggle_authority_status (nor of delete_authority) changes a record that *)
(* has delete_flag = 1: it keeps delete_flag = 1, is_active = 0 and its    *)
(* employee, type, company, dates and amount.  In every state a deleted    *)
(* record is inactive, is in no list get_authorities returns, is not       *)
(* returned by get_authority_by_id and is not counted by the duplicate     *)
(* query of any submission.                                                *)
(***************************************************************************)
C27_Deleted == { i \in DOMAIN authorities : authorities[i].delete_flag = 1 }

C27_DeletedStaysDeleted ==
    /\ [](\A i \in C27_Deleted :
            /\ authorities[i].is_active = 0
            /\ get_authority_by_id(i) = NULL
            /\ \A c \in {NULL, 1} :
                  \A rows \in get_authorities([NoFilters EXCEPT !.company_id = c], 100, 0) :
                      i \notin RowIds(rows)
            /\ \A data \in CompanyCandidates, exclude \in {NULL} \cup AuthorityIds :
                  i \notin DuplicateRows(WithTypeCode(data), exclude))
    /\ [][ \A i \in C27_Deleted :
              i \in DOMAIN authorities' /\ authorities'[i] = authorities[i] ]_vars

\* both records are deleted and update_authority has just returned success
C27_Witness ==
    /\ Len(authorities) = 2
    /\ C27_Deleted = {1, 2}
    /\ ret = Return("update_authority", TRUE, <<MsgUpdated>>)

\* of a global and a company record, the first is deleted; the activation just
\* made has left it inactive
C27_WitnessToggle ==
    /\ Len(authorities) = 1
    /\ C27_Deleted = {1}
    /\ ret = Return("toggle_authority_status", TRUE, <<MsgActivated>>)
(***************************************************************************)
(* C29: in every state reached by create_user, update_user,                *)
(* toggle_user_status and delete_user calls, every account with            *)
(* delete_flag = 1 has is_active = 0.                                      *)
(* Violated: the UPDATE of toggle_user_status and that of update_user are  *)
(* "WHERE id = :id" with no delete_flag condition, so either re-activates  *)
(* a deleted account.                                                      *)
(***************************************************************************)
C29_DeletedUserInactive ==
    \A i \in DOMAIN users : users[i].delete_flag = 1 => users[i].is_active = 0
(***************************************************************************)
(* C30: with toggle_user_status calls of two sessions interleaved query by *)
(* query and no other user operation, starting with an active, non-deleted *)
(* admin, every state keeps at least one account with role admin that is   *)
(* active and not deleted.                                                 *)
(* Violated: with two active admins, each session's guard counts the other *)
(* admin as active before either UPDATE is made; both deactivations then   *)
(* go through and no active admin is left.                                 *)
(***************************************************************************)
C30_ActiveAdminSurvivesRace == Cardinality(ActiveAdmins(users)) >= 1
====
